---------------------------- MODULE Spec2Model ----------------------------
(***************************************************************************)
(* A model of framework/target.py of fuddly: the Target base class, the    *)
(* TargetFeedback store and the NetworkTarget back-end.                    *)
(*                                                                         *)
(* The module holds several specifications over one set of variables, one  *)
(* per part of the program:                                                *)
(*   SpecTimeout  set_timeout / set_feedback_timeout                       *)
(*   SpecResolve  register_new_interface / _get_net_info_from              *)
(*   SpecCollect  the collection loop of _collect_feedback_from            *)
(*   Spec         start/stop, send_data, the accept loop, feedback workers *)
(*   FairSpec     Spec with the fairness the thread scheduler gives        *)
(* Each specification moves its own group of variables and leaves the      *)
(* others at their initial value.                                          *)
(***************************************************************************)
EXTENDS Integers, Sequences, FiniteSets, TLC

(***************************************************************************)
(* Timeout configuration (Target.set_feedback_timeout,                     *)
(* NetworkTarget.set_timeout, NetworkTarget._set_feedback_timeout_specific)*)
(* Durations are counted in tenths of a second, so that the 0.2 s of       *)
(* line 447 is the integer 2.                                              *)
(***************************************************************************)
VARIABLES
    sending_delay,      \* self._sending_delay
    p_feedback_timeout, \* self._feedback_timeout
    feedback_timeout,   \* self.feedback_timeout (attribute of Target)
    last_call           \* history: the last configuration call and its outcome

varsT == <<sending_delay, p_feedback_timeout, feedback_timeout, last_call>>

\* set_timeout(fbk_timeout=6, sending_delay=4) of the constructor, in tenths
CtorFbkTimeout == 60
CtorSendingDelay == 40
\* the 0.2 s subtracted at line 447, in tenths
DelayBackoff == 2
\* the arguments tried: -1..MaxTime and the constructor's two values
MaxTime == 4
TimeInputs == (-1..MaxTime) \cup {CtorSendingDelay, CtorFbkTimeout}

Max2(a, b) == IF a >= b THEN a ELSE b

\* NetworkTarget._set_feedback_timeout_specific, on the state t
SetFeedbackTimeoutSpecific(t, fbk_timeout) ==
    LET t1 == [t EXCEPT !.ptimeout = fbk_timeout]
    IN  IF fbk_timeout = 0
        THEN t1
        ELSE IF t1.delay > t1.ptimeout
             THEN [t1 EXCEPT !.delay = Max2(t1.ptimeout - DelayBackoff, 0)]
             ELSE t1

\* Target.set_feedback_timeout: the assertion, the attribute, the specific part
SetFeedbackTimeout(t, fbk_timeout) ==
    IF ~(fbk_timeout >= 0)
    THEN [t EXCEPT !.raised = TRUE]
    ELSE SetFeedbackTimeoutSpecific([t EXCEPT !.timeout = fbk_timeout], fbk_timeout)

\* a set_timeout that stores the delay before it checks it
SetTimeoutAssignFirst(t, fbk_timeout, delay) ==
    IF ~(delay < fbk_timeout)
    THEN [t EXCEPT !.delay = delay, !.raised = TRUE]
    ELSE SetFeedbackTimeout([t EXCEPT !.delay = delay], fbk_timeout)

\* NetworkTarget.set_timeout
SetTimeout(t, fbk_timeout, delay) ==
    IF ~(delay < fbk_timeout)
    THEN [t EXCEPT !.raised = TRUE]
    ELSE SetFeedbackTimeout([t EXCEPT !.delay = delay], fbk_timeout)

CurT == [delay |-> sending_delay, ptimeout |-> p_feedback_timeout,
         timeout |-> feedback_timeout, raised |-> FALSE]

\* the state after NetworkTarget.__init__ (line 376)
InitT ==
    /\ sending_delay = CtorSendingDelay
    /\ p_feedback_timeout = CtorFbkTimeout
    /\ feedback_timeout = CtorFbkTimeout
    /\ last_call = [op |-> "none", f |-> 0, d |-> 0, raised |-> FALSE,
                    pre |-> [delay |-> CtorSendingDelay, ptimeout |-> CtorFbkTimeout,
                             timeout |-> CtorFbkTimeout, raised |-> FALSE]]

ApplyT(t, op, f, d) ==
    /\ sending_delay' = t.delay
    /\ p_feedback_timeout' = t.ptimeout
    /\ feedback_timeout' = t.timeout
    /\ last_call' = [op |-> op, f |-> f, d |-> d, raised |-> t.raised, pre |-> CurT]

set_timeout ==
    \E f \in TimeInputs, d \in TimeInputs :
        ApplyT(SetTimeout(CurT, f, d), "set_timeout", f, d)

set_feedback_timeout ==
    \E f \in TimeInputs :
        ApplyT(SetFeedbackTimeout(CurT, f), "set_feedback_timeout", f, 0)


(***************************************************************************)
(* Interface registry (NetworkTarget.__init__, _is_valid_socket_type,      *)
(* register_new_interface, _get_data_semantic_key, _get_net_info_from).    *)
(* An endpoint (host, port) is one value of Endpoints.                     *)
(***************************************************************************)
VARIABLES
    if_hostport,        \* self._host / self._port : tag -> endpoint
    if_socket_type,     \* self._socket_type       : tag -> transport tuple
    known_semantics,    \* self.known_semantics    : list of tags
    server_mode,        \* self.server_mode        : endpoint -> BOOLEAN
    hold_connection,    \* self.hold_connection    : endpoint -> BOOLEAN
    multiple_destination, \* self.multiple_destination
    reg_log,            \* history: the accepted register_new_interface calls
    last_resolve        \* history: the last payload resolved and the answer

varsR == <<if_hostport, if_socket_type, known_semantics, server_mode,
           hold_connection, multiple_destination, reg_log, last_resolve>>

UNKNOWN_SEMANTIC == 42
\* two semantic tags of the data model
Tags == {1, 2}
\* two (host, port) pairs; the constructor's is CtorEndpoint
Endpoints == {1, 2}
CtorEndpoint == 1
\* the number of register_new_interface calls of a run
MaxRegs == 2

\* transport tuples (family, type[, protocol]); the last two of SocketTypes
\* are not transports: a raw type without protocol, and a family alone
StreamType == <<"AF_INET", "SOCK_STREAM">>
DgramType == <<"AF_INET", "SOCK_DGRAM">>
RawType == <<"AF_PACKET", "SOCK_RAW", 3>>
SocketTypes == {StreamType, RawType, <<"AF_INET", "SOCK_RAW">>, <<"AF_INET">>}

\* NetworkTarget._is_valid_socket_type
IsValidSocketType(socket_type) ==
    LET skt_sz == Len(socket_type)
    IN  IF skt_sz = 3
        THEN socket_type[2] = "SOCK_RAW"
        ELSE IF skt_sz = 2
             THEN socket_type[2] \in {"SOCK_STREAM", "SOCK_DGRAM"}
             ELSE TRUE

\* A payload: None, or a Data with or without a node, whose node has no
\* semantics (sem = <<>> with has_sem FALSE) or a set of criteria.
NullData == [is_none |-> TRUE, has_node |-> FALSE, has_sem |-> FALSE, sem |-> {}]
Payloads ==
    {NullData}
    \cup {[is_none |-> FALSE, has_node |-> FALSE, has_sem |-> FALSE, sem |-> {}]}
    \cup {[is_none |-> FALSE, has_node |-> TRUE, has_sem |-> FALSE, sem |-> {}]}
    \cup {[is_none |-> FALSE, has_node |-> TRUE, has_sem |-> TRUE, sem |-> S] :
             S \in SUBSET Tags}

\* NodeSemantics.what_match_from (framework/data_model.py): the criteria of
\* the list, in the order of the list, that the semantics hold
WhatMatchFrom(sem, criteria_list) ==
    SelectSeq(criteria_list, LAMBDA crit : crit \in sem)

\* a resolution that takes the last match instead of the first
GetDataSemanticKeyLastMatch(data, known) ==
    IF data.is_none THEN UNKNOWN_SEMANTIC
    ELSE IF ~data.has_node THEN UNKNOWN_SEMANTIC
    ELSE LET matching_crit == IF data.has_sem THEN WhatMatchFrom(data.sem, known)
                              ELSE <<>>
         IN  IF matching_crit # <<>> THEN matching_crit[Len(matching_crit)]
             ELSE UNKNOWN_SEMANTIC

\* NetworkTarget._get_data_semantic_key
GetDataSemanticKey(data, known) ==
    IF data.is_none THEN UNKNOWN_SEMANTIC
    ELSE IF ~data.has_node THEN UNKNOWN_SEMANTIC
    ELSE LET matching_crit == IF data.has_sem THEN WhatMatchFrom(data.sem, known)
                              ELSE <<>>
         IN  IF matching_crit # <<>> THEN matching_crit[1]
             ELSE UNKNOWN_SEMANTIC

\* NetworkTarget._get_net_info_from
GetNetInfoFrom(data) ==
    LET key == GetDataSemanticKey(data, known_semantics)
        hp == if_hostport[key]
    IN  [hostport |-> hp, socket_type |-> if_socket_type[key],
         server_mode |-> server_mode[hp]]

\* f with x mapped to v, x added to the domain when it is new (d[k] = v)
Put(f, x, v) == [k \in DOMAIN f \cup {x} |-> IF k = x THEN v ELSE f[k]]

NoResolve == [data |-> NullData, done |-> FALSE,
              info |-> [hostport |-> 0, socket_type |-> <<>>, server_mode |-> FALSE]]

\* NetworkTarget.__init__(host, port, socket_type, data_semantics,
\* server_mode, hold_connection) with a valid socket_type
InitRWith(data_semantics, socket_type, sm, hold) ==
    /\ if_hostport = Put(Put(<<>>, UNKNOWN_SEMANTIC, CtorEndpoint),
                         data_semantics, CtorEndpoint)
    /\ if_socket_type = Put(Put(<<>>, UNKNOWN_SEMANTIC, socket_type),
                            data_semantics, socket_type)
    /\ known_semantics = <<>>
    /\ server_mode = Put(<<>>, CtorEndpoint, sm)
    /\ hold_connection = Put(<<>>, CtorEndpoint, hold)
    /\ multiple_destination = FALSE
    /\ reg_log = <<>>
    /\ last_resolve = NoResolve

\* the default construction: NetworkTarget()
InitR_Ctor == InitRWith(UNKNOWN_SEMANTIC, StreamType, FALSE, FALSE)

InitR_Any ==
    \E ds \in {UNKNOWN_SEMANTIC, 1}, sm \in BOOLEAN :
        InitRWith(ds, StreamType, sm, FALSE)

\* NetworkTarget.register_new_interface
register_new_interface ==
    /\ Len(reg_log) < MaxRegs
    /\ \E hp \in Endpoints, st \in SocketTypes, ds \in Tags \cup {UNKNOWN_SEMANTIC},
          sm \in BOOLEAN, hold \in BOOLEAN :
        IF ~IsValidSocketType(st)
        THEN UNCHANGED <<if_hostport, if_socket_type, known_semantics, server_mode,
                        hold_connection, multiple_destination, reg_log>>
        ELSE /\ multiple_destination' = TRUE
             /\ if_hostport' = Put(if_hostport, ds, hp)
             /\ if_socket_type' = Put(if_socket_type, ds, st)
             /\ known_semantics' = Append(known_semantics, ds)
             /\ server_mode' = Put(server_mode, hp, sm)
             /\ hold_connection' = Put(hold_connection, hp, hold)
             /\ reg_log' = Append(reg_log, [tag |-> ds, hostport |-> hp,
                                            socket_type |-> st,
                                            server_mode |-> sm,
                                            hold_connection |-> hold])
    /\ last_resolve' = NoResolve

\* a call of _get_net_info_from(data), its answer recorded
resolve ==
    /\ \E data \in Payloads :
        last_resolve' = [data |-> data, done |-> TRUE, info |-> GetNetInfoFrom(data)]
    /\ UNCHANGED <<if_hostport, if_socket_type, known_semantics, server_mode,
                   hold_connection, multiple_destination, reg_log>>

(***************************************************************************)
(* The collection loop of one feedback worker on one handle                *)
(* (NetworkTarget._collect_feedback_from, lines 1017-1117).  A byte is an  *)
(* integer; the peer's data is a sequence of bytes the handle will         *)
(* deliver.  The source reads at most CHUNK_SZ = 2048 bytes at once; the   *)
(* model reads at most ChunkSz bytes, so that data longer than one chunk   *)
(* is within reach of an exhaustive search.                                *)
(***************************************************************************)
VARIABLES
    c_pc,           \* "idle", "loop" (while dont_stop), "done" (after line 1117)
    c_in,           \* the bytes the peer has sent and recv has not returned yet
    c_eof,          \* the peer closes after its data
    c_length,       \* fbk_lengths[s]: NoLength or the expected length
    c_registered,   \* s is in fbk_sockets
    c_open,         \* s has not been closed
    c_chunks,       \* chunks[s]
    c_bytes_recd,   \* bytes_recd[s]
    c_blob,         \* fbk of line 1109 for s
    c_recv,         \* history: the bytes recv returned, in order
    c_pre           \* history: pre_fbk[s], <<>> for None

varsC == <<c_pc, c_in, c_eof, c_length, c_registered, c_open, c_chunks,
           c_bytes_recd, c_blob, c_recv, c_pre>>

\* fbk_lengths[s] is None
NoLength == -1
\* b'\n' of line 1109
NewlineByte == 10
\* the bytes of the model: the newline and one other
Bytes == {NewlineByte, 97}
\* the longest data a peer sends in a run
MaxStream == 3
\* the model's CHUNK_SZ
ChunkSz == 2

RECURSIVE SeqsUpTo(_)
\* the byte strings of length n or less
SeqsUpTo(n) ==
    IF n = 0 THEN {<<>>}
    ELSE LET shorter == SeqsUpTo(n - 1)
         IN  shorter \cup {Append(q, b) : q \in {x \in shorter : Len(x) = n - 1},
                                          b \in Bytes}

Min2(a, b) == IF a <= b THEN a ELSE b

RECURSIVE JoinEmpty(_)
\* b''.join(chks)
JoinEmpty(chks) ==
    IF chks = <<>> THEN <<>> ELSE Head(chks) \o JoinEmpty(Tail(chks))

RECURSIVE JoinNewline(_)
\* b'\n'.join(chks)
JoinNewline(chks) ==
    IF chks = <<>> THEN <<>>
    ELSE IF Len(chks) = 1 THEN Head(chks)
    ELSE Head(chks) \o <<NewlineByte>> \o JoinNewline(Tail(chks))

\* sz of lines 1051-1054
RecvSize(length, bytes_recd) ==
    IF length = NoLength THEN ChunkSz ELSE Min2(length - bytes_recd, ChunkSz)

\* lines 1089-1106 for one handle: the loop goes on
DontStop(registered, ready, length, bytes_recd, late) ==
    IF registered
    THEN (IF ready THEN (length = NoLength \/ bytes_recd < length) ELSE TRUE) /\ ~late
    ELSE FALSE

InitC_Idle ==
    /\ c_pc = "idle"
    /\ c_in = <<>>
    /\ c_eof = FALSE
    /\ c_length = NoLength
    /\ c_registered = FALSE
    /\ c_open = FALSE
    /\ c_chunks = <<>>
    /\ c_bytes_recd = 0
    /\ c_blob = <<>>
    /\ c_recv = <<>>
    /\ c_pre = <<>>

\* lines 1017-1031: a worker starts on an open handle, with or without pre_fbk
InitC_Any ==
    /\ c_pc = "loop"
    /\ c_in \in SeqsUpTo(MaxStream)
    /\ c_eof \in BOOLEAN
    /\ c_length \in {NoLength} \cup (1..MaxStream)
    /\ c_registered = TRUE
    /\ c_open = TRUE
    /\ c_pre \in {<<>>, <<97>>}
    /\ c_chunks = IF c_pre = <<>> THEN <<>> ELSE <<c_pre>>
    /\ c_bytes_recd = 0
    /\ c_blob = <<>>
    /\ c_recv = <<>>

\* the end of a pass: lines 1089-1106, then lines 1108-1117 when the loop ends
EndOfPass(registered, ready, bytes_recd, chunks, open, late) ==
    IF DontStop(registered, ready, c_length, bytes_recd, late)
    THEN /\ c_pc' = "loop"
         /\ c_blob' = c_blob
         /\ c_open' = open
    ELSE /\ c_pc' = "done"
         /\ c_blob' = JoinNewline(chunks)
         /\ c_open' = FALSE

\* a pass in which poll reports nothing for s (lines 1035, 1044-1046, 1089)
PassIdle ==
    /\ c_pc = "loop"
    /\ \E late \in BOOLEAN :
          EndOfPass(c_registered, FALSE, c_bytes_recd, c_chunks, c_open, late)
    /\ UNCHANGED <<c_in, c_eof, c_length, c_registered, c_chunks, c_bytes_recd,
                   c_recv, c_pre>>

\* a pass in which poll reports an event other than EPOLLIN (lines 1037-1041)
PassError ==
    /\ c_pc = "loop"
    /\ c_registered
    /\ c_registered' = FALSE
    /\ \E late \in BOOLEAN :
          EndOfPass(FALSE, FALSE, c_bytes_recd, c_chunks, c_open, late)
    /\ UNCHANGED <<c_in, c_eof, c_length, c_chunks, c_bytes_recd, c_recv, c_pre>>

\* a pass in which s is readable and recv returns n >= 1 bytes (lines 1050-1087)
PassRead ==
    /\ c_pc = "loop"
    /\ c_registered
    /\ \E n \in 1..Min2(RecvSize(c_length, c_bytes_recd), Len(c_in)), late \in BOOLEAN :
          LET chunk == SubSeq(c_in, 1, n)
          IN  /\ c_in' = SubSeq(c_in, n + 1, Len(c_in))
              /\ c_bytes_recd' = c_bytes_recd + Len(chunk)
              /\ c_chunks' = Append(c_chunks, chunk)
              /\ c_recv' = c_recv \o chunk
              /\ EndOfPass(TRUE, TRUE, c_bytes_recd', c_chunks', c_open, late)
    /\ UNCHANGED <<c_eof, c_length, c_registered, c_pre>>

\* a pass in which s is readable and chunk is b'': the peer has closed, the
\* size asked is 0, recv timed out, or recv failed (lines 1058-1084)
PassEmpty ==
    /\ c_pc = "loop"
    /\ c_registered
    /\ \E why \in {"closed", "timeout", "error"}, late \in BOOLEAN :
          /\ why = "closed" =>
                \/ c_in = <<>> /\ c_eof
                \/ RecvSize(c_length, c_bytes_recd) <= 0
          /\ c_registered' = FALSE
          /\ EndOfPass(FALSE, TRUE, c_bytes_recd, c_chunks,
                       IF why = "timeout" THEN c_open ELSE FALSE, late)
    /\ UNCHANGED <<c_in, c_eof, c_length, c_chunks, c_bytes_recd, c_recv, c_pre>>

(***************************************************************************)
(* NetworkTarget at work: start and stop, send_data from the driver        *)
(* thread, the accept loop of a server-mode interface, and the feedback    *)
(* workers.  The target has the constructor's interface only (one          *)
(* (host, port) pair, a stream transport), so every registry keyed by      *)
(* (host, port) has one key at most: X_hp2sock is the handle stored for    *)
(* the pair or NoSock, X_sock2hp the set of handles that are keys.  A      *)
(* handle is a number of Handles; sock gives its state.  No auxiliary      *)
(* feedback interface is declared, so _additional_fbk_sockets is empty.    *)
(***************************************************************************)
VARIABLES
    phase,                \* "init", "started" (after start()), "stopped" (after stop())
    stop_event,           \* self.stop_event.is_set()
    sock,                 \* handle -> "free" (not created), "open", "closed"
    server_sock2hp,       \* self._server_sock2hp: the listener sockets
    server_thread_share,  \* self._server_thread_share[(host, port)]
    last_client_hp2sock,  \* self._last_client_hp2sock[(host, port)]
    last_client_sock2hp,  \* keys of self._last_client_sock2hp
    hclient_hp2sock,      \* self._hclient_hp2sock[(host, port)]
    hclient_sock2hp,      \* keys of self._hclient_sock2hp
    feedback_thread_qty,  \* self.feedback_thread_qty
    feedback_complete_cpt, \* self.feedback_complete_cpt
    sending_id,           \* self._sending_id
    feedback_handled,     \* self._feedback_handled: "None", "False", "True"
    err_code,             \* self._feedback._err_code
    fbk_refs,             \* the reference ids that have an entry in self._feedback
    ev_set,               \* the send_data calls whose connected_client_event is set
    drv,                  \* the driver thread: where it is in send_data
    acc,                  \* the accept-loop threads, one per start()
    workers,              \* the feedback workers (threads of _collect_feedback_from)
    g_epoch,              \* history: the number of start() calls
    g_calls,              \* history: the number of send_data calls
    g_op,                 \* history: the number of framework-initiated calls
    g_spawned,            \* history: operation -> workers spawned for it
    g_done,               \* history: operation -> workers of it that have completed
    g_used,               \* history: the handles a send wrote to or collected on
    g_sends               \* history: the handle each send_data call used itself

varsM == <<phase, stop_event, sock, server_sock2hp, server_thread_share,
           last_client_hp2sock, last_client_sock2hp, hclient_hp2sock,
           hclient_sock2hp, feedback_thread_qty, feedback_complete_cpt,
           sending_id, feedback_handled, err_code, fbk_refs, ev_set, drv, acc,
           workers, g_epoch, g_calls, g_op, g_spawned, g_done, g_used, g_sends>>

\* the socket objects created in a run
MaxHandles == 3
\* the feedback workers spawned in a run
MaxWorkers == 2
\* the send_data calls of a run
MaxCalls == 3
\* the start() calls of a run
MaxStarts == 2

Handles == 1..MaxHandles
\* None where a handle is expected
NoSock == 0
\* the module object `socket`, which is no handle
SocketModule == -1

INTERNALS_ID == "NetworkTarget()"
DefaultFbkId == "Default Feedback Socket"

\* the payloads send_data is given: None, or a Data with raw bytes and no node
RawData == [is_none |-> FALSE, has_node |-> FALSE, has_sem |-> FALSE, sem |-> {}]
SentPayloads == {NullData, RawData}

NoArgs == [data |-> NullData, from_fmk |-> FALSE, call |-> 0, op |-> 0]
IdleDrv == [pc |-> "idle", data |-> NullData, from_fmk |-> FALSE, h |-> NoSock,
            qty |-> 0, op |-> 0, call |-> 0, result |-> "none"]
NoAcc == [pc |-> "none", h |-> NoSock, from_fmk |-> FALSE, data |-> NullData,
          qty |-> 0, op |-> 0, call |-> 0, in_call |-> FALSE]
FreeWorker == [st |-> "free", sid |-> 0, from_fmk |-> FALSE, fbk |-> {}, all |-> {},
               op |-> 0]

\* the handle socket.socket() returns: one not created yet
FreshSock == CHOOSE h \in Handles : sock[h] = "free" /\ \A k \in Handles :
                                        sock[k] = "free" => h <= k
HasFreshSock == \E h \in Handles : sock[h] = "free"
FreeSlot == CHOOSE w \in 1..MaxWorkers : workers[w].st = "free" /\
                \A v \in 1..MaxWorkers : workers[v].st = "free" => w <= v
HasFreeSlot == \E w \in 1..MaxWorkers : workers[w].st = "free"

Hold == hold_connection[CtorEndpoint]

\* a _before_sending_data that counts every call
BeforeSendingDataEveryCall(from_fmk, handled, sid) ==
    [handled |-> IF from_fmk THEN "False" ELSE handled, sid |-> sid + 1]

\* NetworkTarget._before_sending_data, lines 1254-1260: the new values of
\* _feedback_handled and _sending_id
BeforeSendingData(from_fmk, handled, sid) ==
    IF from_fmk THEN [handled |-> "False", sid |-> sid + 1]
    ELSE [handled |-> handled, sid |-> sid]

\* a completion that counts whatever the operation of the worker
FeedbackCompleteAnySid(sid, cur_sid, cpt, qty, handled) ==
    LET cpt1 == cpt + 1
    IN  [cpt |-> cpt1, handled |-> IF cpt1 = qty THEN "True" ELSE handled]

\* NetworkTarget._feedback_complete
FeedbackComplete(sid, cur_sid, cpt, qty, handled) ==
    LET cpt1 == IF sid = cur_sid THEN cpt + 1 ELSE cpt
    IN  [cpt |-> cpt1, handled |-> IF cpt1 = qty THEN "True" ELSE handled]

\* NetworkTarget.is_target_ready_for_new_data
IsTargetReadyForNewData == feedback_handled = "True"

\* a _connect_to_target that never looks the held handle up
ConnectNeverReuses(hold, hp2sock) == FALSE

\* NetworkTarget._connect_to_target, line 798: the held handle is returned
ConnectReuses(hold, hp2sock) == hold /\ hp2sock # NoSock

\* a worker that closes no handle on exit
WorkerNeverCloses(s, stopped, additional, hclient, last_client) == FALSE

\* lines 1114-1116: the worker closes s on exit
WorkerCloses(s, stopped, additional, hclient, last_client) ==
    /\ (stopped \/ s \notin additional)
    /\ (stopped \/ s \notin hclient)
    /\ (stopped \/ s \notin last_client)

\* _check_and_handle_obsolete_socket(skt), lines 993-1015, on the registries
\* reg: the body tests and removes `socket`, the module, and not skt
CheckAndHandleObsoleteSocket(skt, reg) ==
    LET key == SocketModule
    IN  IF key \in reg.last_client_sock2hp
        THEN [reg EXCEPT !.last_client_sock2hp = @ \ {key},
                         !.last_client_hp2sock = NoSock]
        ELSE IF key \in reg.hclient_sock2hp
             THEN [reg EXCEPT !.hclient_sock2hp = @ \ {key},
                              !.hclient_hp2sock = NoSock]
             ELSE reg

Registries == [last_client_sock2hp |-> last_client_sock2hp,
               last_client_hp2sock |-> last_client_hp2sock,
               hclient_sock2hp |-> hclient_sock2hp,
               hclient_hp2sock |-> hclient_hp2sock]

\* the state before start(): NetworkTarget.__init__, lines 371-393
InitM ==
    /\ phase = "init"
    /\ stop_event = FALSE
    /\ sock = [h \in Handles |-> "free"]
    /\ server_sock2hp = {}
    /\ server_thread_share = NoArgs
    /\ last_client_hp2sock = NoSock
    /\ last_client_sock2hp = {}
    /\ hclient_hp2sock = NoSock
    /\ hclient_sock2hp = {}
    /\ feedback_thread_qty = 0
    /\ feedback_complete_cpt = 0
    /\ sending_id = 0
    /\ feedback_handled = "None"
    /\ err_code = 0
    /\ fbk_refs = {}
    /\ ev_set = {}
    /\ drv = IdleDrv
    /\ acc = [e \in 1..MaxStarts |-> NoAcc]
    /\ workers = [w \in 1..MaxWorkers |-> FreeWorker]
    /\ g_epoch = 0
    /\ g_calls = 0
    /\ g_op = 0
    /\ g_spawned = [o \in 0..MaxCalls |-> 0]
    /\ g_done = [o \in 0..MaxCalls |-> 0]
    /\ g_used = {}
    /\ g_sends = <<>>

FreeSlots == {w \in 1..MaxWorkers : workers[w].st = "free"}
\* the threads that are about to start a worker
PendingSpawns ==
    (IF drv.pc \in {"cached", "spawn"} THEN 1 ELSE 0)
    + Cardinality({e \in 1..MaxStarts : acc[e].pc = "spawn"})
\* a worker started now stays within MaxWorkers
CanSpawn == Cardinality(FreeSlots) > PendingSpawns

\* _server_thread_lock is held by a thread that has ended: line 993 acquires
\* it, line 994 raises when the registries are None, and no release follows
LockLost == \E w \in 1..MaxWorkers : workers[w].st = "dead"

\* s.close() on every handle of S
CloseAll(S) == [h \in Handles |-> IF h \in S /\ sock[h] = "open" THEN "closed"
                                  ELSE sock[h]]

\* what _send_data does on the handle s with data: "ok" (the payload is
\* written, or data is None and nothing is), "raise" (lines 1200, 1226, or the
\* error of select and epoll on a closed handle), "zero" (lines 1202-1204)
WriteOutcomes(data, s, fresh) ==
    IF ~fresh /\ sock[s] # "open" THEN {"raise"}
    ELSE IF data.is_none THEN {"ok"}
    ELSE {"ok", "raise", "zero"}

SockAfterWrite(s, fresh, written) ==
    IF written = "zero" THEN "closed"
    ELSE IF fresh THEN "open"
    ELSE sock[s]

SendEntry(h, fresh, cached) ==
    [h |-> h, fresh |-> fresh, cached |-> cached, epoch |-> g_epoch,
     reused |-> h \in g_used,
     prev_open |-> /\ g_sends # <<>>
                   /\ g_sends[Len(g_sends)].epoch = g_epoch
                   /\ sock[g_sends[Len(g_sends)].h] = "open"]

\* NetworkTarget.start, lines 629-656
start ==
    /\ phase \in {"init", "stopped"}
    /\ drv.pc = "idle"
    /\ g_epoch < MaxStarts
    /\ phase' = "started"
    /\ server_sock2hp' = {}
    /\ server_thread_share' = NoArgs
    /\ last_client_hp2sock' = NoSock
    /\ last_client_sock2hp' = {}
    /\ hclient_hp2sock' = NoSock
    /\ hclient_sock2hp' = {}
    /\ feedback_handled' = "None"
    /\ feedback_thread_qty' = 0
    /\ feedback_complete_cpt' = 0
    /\ sending_id' = 0
    /\ g_epoch' = g_epoch + 1
    /\ UNCHANGED <<stop_event, sock, err_code, fbk_refs, ev_set, drv, acc, workers,
                   g_calls, g_op, g_spawned, g_done, g_used, g_sends>>

\* NetworkTarget.stop, lines 658-680; the registries become None, which is
\* phase = "stopped"
stop ==
    /\ phase = "started"
    /\ drv.pc = "idle"
    /\ stop_event' = TRUE
    /\ sock' = CloseAll(server_sock2hp \cup last_client_sock2hp \cup hclient_sock2hp)
    /\ phase' = "stopped"
    /\ server_sock2hp' = {}
    /\ server_thread_share' = NoArgs
    /\ last_client_hp2sock' = NoSock
    /\ last_client_sock2hp' = {}
    /\ hclient_hp2sock' = NoSock
    /\ hclient_sock2hp' = {}
    /\ UNCHANGED <<feedback_thread_qty, feedback_complete_cpt, sending_id,
                   feedback_handled, err_code, fbk_refs, ev_set, drv, acc, workers,
                   g_epoch, g_calls, g_op, g_spawned, g_done, g_used, g_sends>>

\* the driver enters send_data(data, from_fmk): line 683
CallBegins(data, from_fmk) ==
    /\ phase = "started"
    /\ drv.pc = "idle"
    /\ g_calls < MaxCalls
    /\ g_calls' = g_calls + 1
    /\ g_op' = IF from_fmk THEN g_op + 1 ELSE g_op
    /\ LET b == BeforeSendingData(from_fmk, feedback_handled, sending_id)
       IN  /\ feedback_handled' = b.handled
           /\ sending_id' = b.sid

\* the driver's record during the call that begins
CallDrv(data, from_fmk, pc, h, result) ==
    [pc |-> pc, data |-> data, from_fmk |-> from_fmk, h |-> h,
     qty |-> feedback_thread_qty,
     op |-> IF from_fmk THEN g_op + 1 ELSE 0,
     call |-> g_calls + 1, result |-> result]

\* send_data(None): lines 683-691, nothing to collect from
send_data_nothing ==
    \E from_fmk \in BOOLEAN :
        /\ ~Hold \/ feedback_timeout = 0
        /\ CallBegins(NullData, from_fmk)
        /\ drv' = CallDrv(NullData, from_fmk, "idle", NoSock, "ok")
        /\ UNCHANGED <<phase, stop_event, sock, server_sock2hp, server_thread_share,
                       last_client_hp2sock, last_client_sock2hp, hclient_hp2sock,
                       hclient_sock2hp, feedback_thread_qty, feedback_complete_cpt,
                       err_code, fbk_refs, ev_set, acc, workers, g_epoch, g_spawned,
                       g_done, g_used, g_sends>>

\* send_data in client mode: lines 683-691, 707-714, _connect_to_target
\* (797-832) and _send_data up to the reading of feedback_thread_qty
\* (1129-1233)
send_data_client ==
    \E data \in SentPayloads, from_fmk \in BOOLEAN,
       connected \in BOOLEAN, written \in {"ok", "raise", "zero"} :
        /\ ~GetNetInfoFrom(data).server_mode
        /\ ~(data.is_none /\ (~Hold \/ feedback_timeout = 0))
        /\ CallBegins(data, from_fmk)
        /\ LET reuse == ConnectReuses(Hold, hclient_hp2sock)
               s == IF reuse THEN hclient_hp2sock ELSE FreshSock
           IN  /\ reuse => connected
               /\ (~reuse /\ connected) => HasFreshSock
               /\ connected => written \in WriteOutcomes(data, s, ~reuse)
               /\ (connected /\ written = "ok") => CanSpawn
               /\ IF ~connected
                  THEN /\ err_code' = -1
                       /\ fbk_refs' = fbk_refs \cup {INTERNALS_ID}
                       /\ drv' = CallDrv(data, from_fmk, "idle", NoSock, "ok")
                       /\ UNCHANGED <<sock, hclient_hp2sock, hclient_sock2hp, g_used,
                                      g_sends>>
                  ELSE /\ hclient_hp2sock' = IF ~reuse /\ Hold THEN s
                                             ELSE hclient_hp2sock
                       /\ hclient_sock2hp' = IF ~reuse /\ Hold
                                             THEN hclient_sock2hp \cup {s}
                                             ELSE hclient_sock2hp
                       /\ sock' = [sock EXCEPT ![s] = SockAfterWrite(s, ~reuse, written)]
                       /\ g_sends' = Append(g_sends, SendEntry(s, ~reuse, FALSE))
                       /\ g_used' = g_used \cup {s}
                       /\ drv' = IF written = "ok"
                                 THEN CallDrv(data, from_fmk, "spawn", s, "none")
                                 ELSE CallDrv(data, from_fmk, "idle", s, "raised")
                       /\ UNCHANGED <<err_code, fbk_refs>>
        /\ UNCHANGED <<phase, stop_event, server_sock2hp, server_thread_share,
                       last_client_hp2sock, last_client_sock2hp, feedback_thread_qty,
                       feedback_complete_cpt, ev_set, acc, workers, g_epoch,
                       g_spawned, g_done>>

\* send_data in server mode: lines 683-698 and _listen_to_target (835-904)
send_data_server ==
    \E data \in SentPayloads, from_fmk \in BOOLEAN, bound \in BOOLEAN :
        /\ GetNetInfoFrom(data).server_mode
        /\ ~(data.is_none /\ (~Hold \/ feedback_timeout = 0))
        /\ CallBegins(data, from_fmk)
        /\ LET args == [data |-> data, from_fmk |-> from_fmk, call |-> g_calls + 1,
                        op |-> IF from_fmk THEN g_op + 1 ELSE 0]
               listening == server_sock2hp # {}
               cached == Hold /\ last_client_hp2sock # NoSock
           IN  /\ listening => bound
               /\ (~listening /\ bound) => HasFreshSock
               /\ (listening /\ cached) => CanSpawn
               /\ IF LockLost /\ (listening \/ bound)
                  THEN \* the driver waits for the lock at line 862 or 890
                       /\ drv' = CallDrv(data, from_fmk, "blocked", NoSock, "none")
                       /\ sock' = IF listening THEN sock
                                  ELSE [sock EXCEPT ![FreshSock] = "open"]
                       /\ server_sock2hp' = IF listening THEN server_sock2hp
                                            ELSE {FreshSock}
                       /\ UNCHANGED <<server_thread_share, acc>>
                  ELSE IF listening
                  THEN \* lines 862-870
                       /\ server_thread_share' = args
                       /\ drv' = IF cached
                                 THEN CallDrv(data, from_fmk, "cached",
                                              last_client_hp2sock, "none")
                                 ELSE CallDrv(data, from_fmk, "wait", NoSock, "none")
                       /\ UNCHANGED <<sock, server_sock2hp, acc>>
                  ELSE IF bound
                  THEN \* lines 872-897
                       /\ sock' = [sock EXCEPT ![FreshSock] = "open"]
                       /\ server_sock2hp' = {FreshSock}
                       /\ server_thread_share' = args
                       /\ acc' = [acc EXCEPT ![g_epoch] = [NoAcc EXCEPT !.pc = "loop"]]
                       /\ drv' = CallDrv(data, from_fmk, "wait", NoSock, "none")
                  ELSE \* lines 883-887
                       /\ drv' = CallDrv(data, from_fmk, "wait", NoSock, "none")
                       /\ UNCHANGED <<sock, server_sock2hp, server_thread_share, acc>>
        /\ UNCHANGED <<phase, stop_event, last_client_hp2sock, last_client_sock2hp,
                       hclient_hp2sock, hclient_sock2hp, feedback_thread_qty,
                       feedback_complete_cpt, err_code, fbk_refs, ev_set, workers,
                       g_epoch, g_spawned, g_done, g_used, g_sends>>

\* _handle_target_connection (968-976) and _send_data up to the reading of
\* feedback_thread_qty, on the handle c (fresh: just accepted) with args:
\* the registries, the event and the handle
HandleTargetConnection(c, fresh, args, written) ==
    /\ Hold => ~LockLost
    /\ last_client_hp2sock' = IF Hold THEN c ELSE last_client_hp2sock
    /\ last_client_sock2hp' = IF Hold THEN last_client_sock2hp \cup {c}
                              ELSE last_client_sock2hp
    /\ ev_set' = ev_set \cup {args.call}
    /\ sock' = [sock EXCEPT ![c] = SockAfterWrite(c, fresh, written)]
    /\ g_used' = g_used \cup {c}

\* the driver calls func(csocket, addr, args) with the cached peer: line 869
send_data_cached_peer ==
    /\ drv.pc = "cached"
    /\ \E written \in WriteOutcomes(drv.data, drv.h, FALSE) :
        /\ HandleTargetConnection(drv.h, FALSE, [call |-> drv.call], written)
        /\ g_sends' = Append(g_sends, SendEntry(drv.h, FALSE, TRUE))
        /\ drv' = IF written = "ok"
                  THEN [drv EXCEPT !.pc = "spawn", !.qty = feedback_thread_qty]
                  ELSE [drv EXCEPT !.pc = "idle", !.result = "raised"]
    /\ UNCHANGED <<phase, stop_event, server_sock2hp, server_thread_share,
                   hclient_hp2sock, hclient_sock2hp, feedback_thread_qty,
                   feedback_complete_cpt, sending_id, feedback_handled, err_code,
                   fbk_refs, acc, workers, g_epoch, g_calls, g_op, g_spawned, g_done>>

\* the worker _start_fbk_collector starts (line 1234-1239)
NewWorker(h, from_fmk, op) ==
    [st |-> "run", sid |-> sending_id, from_fmk |-> from_fmk, fbk |-> {h},
     all |-> {h}, op |-> op]

\* _start_fbk_collector, lines 1232-1239: feedback_thread_qty is written with
\* the value read plus one, and the worker thread starts
StartFbkCollector(h, from_fmk, qty_read, op) ==
    /\ feedback_thread_qty' = IF from_fmk THEN qty_read + 1 ELSE feedback_thread_qty
    /\ workers' = [workers EXCEPT ![FreeSlot] = NewWorker(h, from_fmk, op)]
    /\ g_spawned' = IF from_fmk THEN [g_spawned EXCEPT ![op] = @ + 1] ELSE g_spawned

\* the driver ends _start_fbk_collector
send_data_spawn ==
    /\ drv.pc = "spawn"
    /\ StartFbkCollector(drv.h, drv.from_fmk, drv.qty, drv.op)
    /\ drv' = IF GetNetInfoFrom(drv.data).server_mode
              THEN [drv EXCEPT !.pc = "wait"]
              ELSE [drv EXCEPT !.pc = "idle", !.result = "ok"]
    /\ UNCHANGED <<phase, stop_event, sock, server_sock2hp, server_thread_share,
                   last_client_hp2sock, last_client_sock2hp, hclient_hp2sock,
                   hclient_sock2hp, feedback_complete_cpt, sending_id,
                   feedback_handled, err_code, fbk_refs, ev_set, acc, g_epoch,
                   g_calls, g_op, g_done, g_used, g_sends>>

\* a send_data that records nothing when no peer has connected
NoPeerFeedbackSilent(connected, err, refs) == [err |-> err, refs |-> refs]

\* send_data, lines 700-705: the error code and the reference ids of the
\* feedback store after the wait for a peer
NoPeerFeedback(connected, err, refs) ==
    IF ~connected THEN [err |-> -2, refs |-> refs \cup {INTERNALS_ID}]
    ELSE [err |-> err, refs |-> refs]

\* send_data in server mode returns: lines 699-705
send_data_return ==
    /\ drv.pc = "wait"
    /\ LET f == NoPeerFeedback(drv.call \in ev_set, err_code, fbk_refs)
       IN  /\ err_code' = f.err
           /\ fbk_refs' = f.refs
    /\ drv' = [drv EXCEPT !.pc = "idle", !.result = "ok"]
    /\ UNCHANGED <<phase, stop_event, sock, server_sock2hp, server_thread_share,
                   last_client_hp2sock, last_client_sock2hp, hclient_hp2sock,
                   hclient_sock2hp, feedback_thread_qty, feedback_complete_cpt,
                   sending_id, feedback_handled, ev_set, acc, workers, g_epoch,
                   g_calls, g_op, g_spawned, g_done, g_used, g_sends>>

\* an accept loop that does not look at the stop flag
ServerMainLoopsAlways(ev) == TRUE

\* the test of the accept loop, `while not self.stop_event.is_set()`: line 907
ServerMainLoops(ev) == ~ev

\* the accept loop of line 907 takes a connection: lines 910, 922-924, then
\* _handle_target_connection and _send_data up to the reading of
\* feedback_thread_qty; an exception of _send_data ends the thread
accept_connection ==
    \E e \in 1..MaxStarts, written \in {"ok", "raise", "zero"} :
        /\ acc[e].pc = "loop"
        /\ e = g_epoch
        /\ phase = "started"
        /\ ServerMainLoops(stop_event)
        /\ ~LockLost
        /\ HasFreshSock
        /\ CanSpawn
        /\ LET args == server_thread_share
               c == FreshSock
           IN  /\ written \in WriteOutcomes(args.data, c, TRUE)
               /\ HandleTargetConnection(c, TRUE, args, written)
               /\ acc' = [acc EXCEPT ![e] =
                             IF written = "ok"
                             THEN [pc |-> "spawn", h |-> c, from_fmk |-> args.from_fmk,
                                   data |-> args.data, qty |-> feedback_thread_qty,
                                   op |-> args.op, call |-> args.call,
                                   in_call |-> FALSE]
                             ELSE \* TargetStuck is raised in this thread and ends it
                                  [NoAcc EXCEPT !.pc = "dead", !.h = c,
                                                !.call = args.call,
                                                !.in_call = (drv.pc = "wait" /\
                                                             drv.call = args.call)]]
        /\ UNCHANGED <<phase, stop_event, server_sock2hp, server_thread_share,
                       hclient_hp2sock, hclient_sock2hp, feedback_thread_qty,
                       feedback_complete_cpt, sending_id, feedback_handled, err_code,
                       fbk_refs, drv, workers, g_epoch, g_calls, g_op, g_spawned,
                       g_done, g_sends>>

\* the accept-loop thread ends _start_fbk_collector and loops
accept_spawn ==
    \E e \in 1..MaxStarts :
        /\ acc[e].pc = "spawn"
        /\ StartFbkCollector(acc[e].h, acc[e].from_fmk, acc[e].qty, acc[e].op)
        /\ acc' = [acc EXCEPT ![e] = [NoAcc EXCEPT !.pc = "loop"]]
        /\ UNCHANGED <<phase, stop_event, sock, server_sock2hp, server_thread_share,
                       last_client_hp2sock, last_client_sock2hp, hclient_hp2sock,
                       hclient_sock2hp, feedback_complete_cpt, sending_id,
                       feedback_handled, err_code, fbk_refs, ev_set, drv, g_epoch,
                       g_calls, g_op, g_done, g_used, g_sends>>

\* the accept loop sees the stop flag: line 907
accept_exit ==
    \E e \in 1..MaxStarts :
        /\ acc[e].pc = "loop"
        /\ ~ServerMainLoops(stop_event)
        /\ acc' = [acc EXCEPT ![e] = [NoAcc EXCEPT !.pc = "exited"]]
        /\ UNCHANGED <<phase, stop_event, sock, server_sock2hp, server_thread_share,
                       last_client_hp2sock, last_client_sock2hp, hclient_hp2sock,
                       hclient_sock2hp, feedback_thread_qty, feedback_complete_cpt,
                       sending_id, feedback_handled, err_code, fbk_refs, ev_set, drv,
                       workers, g_epoch, g_calls, g_op, g_spawned, g_done, g_used,
                       g_sends>>

\* the registries after _check_and_handle_obsolete_socket(s)
ObsoleteSocketHandled(s) ==
    LET reg == CheckAndHandleObsoleteSocket(s, Registries)
    IN  /\ last_client_sock2hp' = reg.last_client_sock2hp
        /\ last_client_hp2sock' = reg.last_client_hp2sock
        /\ hclient_sock2hp' = reg.hclient_sock2hp
        /\ hclient_hp2sock' = reg.hclient_hp2sock

\* a worker in its loop reads b'' from a handle or gets an event other than
\* EPOLLIN for it: lines 1037-1041 and 1078-1084.  After stop() the
\* registries are None and the check of line 994 raises: the thread ends
\* there with _server_thread_lock held, and whoever asks for the lock next
\* waits for ever.
worker_handle_lost ==
    \E w \in 1..MaxWorkers, closes \in BOOLEAN :
        /\ workers[w].st = "run"
        /\ \E s \in workers[w].fbk :
            /\ sock[s] = "open"
            /\ IF LockLost
               THEN /\ workers' = [workers EXCEPT ![w].st = "blocked", ![w].fbk = @ \ {s}]
                    /\ UNCHANGED <<sock, last_client_sock2hp, last_client_hp2sock,
                                   hclient_sock2hp, hclient_hp2sock>>
               ELSE IF phase # "started"
               THEN /\ workers' = [workers EXCEPT ![w].st = "dead", ![w].fbk = @ \ {s}]
                    /\ UNCHANGED <<sock, last_client_sock2hp, last_client_hp2sock,
                                   hclient_sock2hp, hclient_hp2sock>>
               ELSE /\ ObsoleteSocketHandled(s)
                    /\ sock' = IF closes THEN [sock EXCEPT ![s] = "closed"] ELSE sock
                    /\ workers' = [workers EXCEPT
                                      ![w].fbk = @ \ {s},
                                      ![w].st = IF workers[w].fbk = {s} THEN "exit"
                                                ELSE "run"]
        /\ UNCHANGED <<phase, stop_event, server_sock2hp, server_thread_share,
                       feedback_thread_qty, feedback_complete_cpt, sending_id,
                       feedback_handled, err_code, fbk_refs, ev_set, drv, acc,
                       g_epoch, g_calls, g_op, g_spawned, g_done, g_used, g_sends>>

\* the loop of a worker ends on the timeout or on the expected lengths:
\* lines 1089-1103
worker_loop_ends ==
    \E w \in 1..MaxWorkers :
        /\ workers[w].st = "run"
        /\ workers' = [workers EXCEPT ![w].st = "exit"]
        /\ UNCHANGED <<phase, stop_event, sock, server_sock2hp, server_thread_share,
                       last_client_hp2sock, last_client_sock2hp, hclient_hp2sock,
                       hclient_sock2hp, feedback_thread_qty, feedback_complete_cpt,
                       sending_id, feedback_handled, err_code, fbk_refs, ev_set, drv,
                       acc, g_epoch, g_calls, g_op, g_spawned, g_done, g_used,
                       g_sends>>

\* a worker leaves: lines 1108-1126
worker_exit ==
    \E w \in 1..MaxWorkers :
        /\ workers[w].st = "exit"
        /\ sock' = CloseAll({s \in workers[w].all :
                                WorkerCloses(s, phase # "started", {},
                                             hclient_sock2hp, last_client_sock2hp)})
        /\ fbk_refs' = fbk_refs \cup {DefaultFbkId}
        /\ LET c == FeedbackComplete(workers[w].sid, sending_id,
                                     feedback_complete_cpt, feedback_thread_qty,
                                     feedback_handled)
           IN  IF workers[w].from_fmk
               THEN /\ feedback_complete_cpt' = c.cpt
                    /\ feedback_handled' = c.handled
                    /\ g_done' = [g_done EXCEPT ![workers[w].op] = @ + 1]
               ELSE UNCHANGED <<feedback_complete_cpt, feedback_handled, g_done>>
        /\ workers' = [workers EXCEPT ![w].st = "done"]
        /\ UNCHANGED <<phase, stop_event, server_sock2hp, server_thread_share,
                       last_client_hp2sock, last_client_sock2hp, hclient_hp2sock,
                       hclient_sock2hp, feedback_thread_qty, sending_id, err_code,
                       ev_set, drv, acc, g_epoch, g_calls, g_op, g_spawned, g_used,
                       g_sends>>

(***************************************************************************)
(* One call of send_data (client mode) or send_multiple_data, step by      *)
(* step in the driver thread: the loop over the payloads, _send_data on    *)
(* the handles obtained, and the wait for the peers of the server-mode     *)
(* destinations.  A payload is given by what _get_net_info_from returns    *)
(* for it; no destination holds its connection, so every connect creates   *)
(* a handle.  The handle obtained for the i-th payload is the number i.    *)
(***************************************************************************)
VARIABLES
    s_pc,        \* "idle", "loop", "send" (before _send_data), "wait", "done"
    s_op,        \* "none", "send_data", "send_multiple_data"
    s_list,      \* the destinations of data_list, in order
    s_i,         \* the payloads the loop has handled
    s_sockets,   \* sockets (send_multiple_data) or [s] (send_data)
    s_events,    \* the keys of connected_client_event
    s_err,       \* self._feedback._err_code
    s_refs,      \* the reference ids with an entry in self._feedback
    s_spawned,   \* _start_fbk_collector was called
    s_written,   \* the handles the payload was written to
    s_result,    \* "none", "returned", or the exception the call raised
    s_failed     \* history: the destinations no handle was obtained for

varsS == <<s_pc, s_op, s_list, s_i, s_sockets, s_events, s_err, s_refs,
           s_spawned, s_written, s_result, s_failed>>

\* the longest data_list of a run
MaxList == 2
\* the value False, which _connect_to_target returns at line 817
FalseHandle == -2

\* what _get_net_info_from gives for a payload: client-mode destinations
\* of the three transports, and server-mode stream destinations
ClientDests == [hostport : Endpoints, socket_type : {StreamType, DgramType, RawType},
                server_mode : {FALSE}]
ServerDests == [hostport : Endpoints, socket_type : {StreamType}, server_mode : {TRUE}]

\* NetworkTarget._connect_to_target for a destination that holds no
\* connection, lines 801-832: ok is the outcome of bind (raw) or connect
ConnectToTarget(socket_type, ok, fresh) ==
    LET sock_type == socket_type[2]
    IN  IF sock_type = "SOCK_RAW"
        THEN IF ok THEN fresh ELSE FalseHandle
        ELSE IF ok THEN fresh ELSE NoSock

\* how _send_data(sockets, ...) can end for payloads that are not None:
\* lines 1148 (sockets[0] of an empty list), 1170-1226
SendDataOutcomes(sockets) ==
    IF sockets = <<>> THEN {"IndexError"}
    ELSE IF \A k \in 1..Len(sockets) : sockets[k] = FalseHandle
         THEN \* select takes False for the descriptor 0: not writable
              \* (line 1226), writable (False.fileno() at line 1177), or closed
              {"TargetStuck", "AttributeError", "OSError"}
    ELSE IF \E k \in 1..Len(sockets) : sockets[k] = FalseHandle
         THEN {"TargetStuck", "AttributeError", "OSError", "collect"}
    ELSE {"TargetStuck", "collect"}

InitS ==
    /\ s_pc = "idle"
    /\ s_op = "none"
    /\ s_list = <<>>
    /\ s_i = 0
    /\ s_sockets = <<>>
    /\ s_events = {}
    /\ s_err = 0
    /\ s_refs = {}
    /\ s_spawned = FALSE
    /\ s_written = {}
    /\ s_result = "none"
    /\ s_failed = {}

\* send_data(data) for a client-mode destination: lines 683-684, 706
call_send_data ==
    /\ s_pc = "idle"
    /\ \E d \in ClientDests :
          /\ s_list' = <<d>>
          /\ s_op' = "send_data"
          /\ s_pc' = "loop"
    /\ UNCHANGED <<s_i, s_sockets, s_events, s_err, s_refs, s_spawned, s_written,
                   s_result, s_failed>>

\* send_multiple_data(data_list): lines 718-722
call_send_multiple_data ==
    /\ s_pc = "idle"
    /\ \E n \in 0..MaxList : \E l \in [1..n -> ClientDests \cup ServerDests] :
          /\ s_list' = l
          /\ s_op' = "send_multiple_data"
          /\ s_pc' = IF n = 0 THEN "send" ELSE "loop"
    /\ UNCHANGED <<s_i, s_sockets, s_events, s_err, s_refs, s_spawned, s_written,
                   s_result, s_failed>>

\* one payload of a client-mode destination: lines 707-714 (send_data) and
\* 732-741 (send_multiple_data)
connect_step ==
    /\ s_pc = "loop"
    /\ ~s_list[s_i + 1].server_mode
    /\ \E ok \in BOOLEAN :
        LET d == s_list[s_i + 1]
            s == ConnectToTarget(d.socket_type, ok, s_i + 1)
            last == s_i + 1 = Len(s_list)
        IN  /\ s_i' = s_i + 1
            /\ s_failed' = IF ok THEN s_failed ELSE s_failed \cup {s_i + 1}
            /\ IF s = NoSock
               THEN /\ s_err' = IF s_op = "send_data" THEN -1 ELSE -2
                    /\ s_refs' = s_refs \cup {INTERNALS_ID}
                    /\ s_sockets' = s_sockets
                    /\ s_pc' = IF s_op = "send_data" THEN "done"
                               ELSE IF last THEN "send" ELSE "loop"
                    /\ s_result' = IF s_op = "send_data" THEN "returned" ELSE s_result
               ELSE /\ s_sockets' = Append(s_sockets, s)
                    /\ s_pc' = IF last THEN "send" ELSE "loop"
                    /\ UNCHANGED <<s_err, s_refs, s_result>>
    /\ UNCHANGED <<s_op, s_list, s_events, s_spawned, s_written>>

\* one payload of a server-mode destination: lines 725-730
listen_step ==
    /\ s_pc = "loop"
    /\ s_list[s_i + 1].server_mode
    /\ s_events' = s_events \cup {s_list[s_i + 1].hostport}
    /\ s_i' = s_i + 1
    /\ s_pc' = IF s_i + 1 = Len(s_list) THEN "send" ELSE "loop"
    /\ UNCHANGED <<s_op, s_list, s_sockets, s_err, s_refs, s_spawned, s_written,
                   s_result, s_failed>>

\* _send_data(sockets, data_refs, ...): lines 714 and 743
send_step ==
    /\ s_pc = "send"
    /\ \E out \in SendDataOutcomes(s_sockets) :
        IF out = "collect"
        THEN /\ s_written' = {s_sockets[k] : k \in 1..Len(s_sockets)} \ {FalseHandle}
             /\ s_spawned' = TRUE
             /\ s_pc' = IF s_events # {} THEN "wait" ELSE "done"
             /\ s_result' = IF s_events # {} THEN s_result ELSE "returned"
        ELSE /\ s_result' = out
             /\ s_pc' = "done"
             /\ UNCHANGED <<s_written, s_spawned>>
    /\ UNCHANGED <<s_op, s_list, s_i, s_sockets, s_events, s_err, s_refs, s_failed>>

\* the wait for the peers and the report of those that did not connect:
\* lines 746-767
wait_step ==
    /\ s_pc = "wait"
    /\ \E connected \in SUBSET s_events :
        IF connected # s_events
        THEN /\ s_err' = -1
             /\ s_refs' = s_refs \cup {INTERNALS_ID}
        ELSE UNCHANGED <<s_err, s_refs>>
    /\ s_pc' = "done"
    /\ s_result' = "returned"
    /\ UNCHANGED <<s_op, s_list, s_i, s_sockets, s_events, s_spawned, s_written,
                   s_failed>>

(***************************************************************************)
(* The write of one payload on one handle in _send_data (lines             *)
(* 1170-1226): the select, the loop of s.send with its retries, and what   *)
(* follows the loop.                                                       *)
(***************************************************************************)
VARIABLES
    w_pc,          \* "idle", "loop" (line 1182), "collect" (line 1207), "raised"
    w_len,         \* len(raw_data)
    w_totalsent,   \* totalsent
    w_send_retry,  \* send_retry
    w_closed,      \* s.close() of line 1203 was called
    w_exit         \* how the loop was left: "none", "complete", "exhausted",
                   \* "emsgsize", "error", "zero", "not_ready"

varsW == <<w_pc, w_len, w_totalsent, w_send_retry, w_closed, w_exit>>

\* the bound on send_retry in line 1182
SendRetryLimit == 10
\* the longest payload of a run, in bytes
MaxPayload == 3

\* the condition of the while of line 1182
SendLoopGoesOn(totalsent, len, send_retry) ==
    totalsent < len /\ send_retry < SendRetryLimit

InitW ==
    /\ w_pc = "idle"
    /\ w_len = 0
    /\ w_totalsent = 0
    /\ w_send_retry = 0
    /\ w_closed = FALSE
    /\ w_exit = "none"

\* lines 1170-1181 and 1225-1226: select finds the handle writable or not
write_begin ==
    /\ w_pc = "idle"
    /\ \E len \in 0..MaxPayload, ready_to_write \in BOOLEAN :
          /\ w_len' = len
          /\ w_pc' = IF ready_to_write THEN "loop" ELSE "raised"
          /\ w_exit' = IF ready_to_write THEN "none" ELSE "not_ready"
    /\ UNCHANGED <<w_totalsent, w_send_retry, w_closed>>

\* s.send returns: lines 1185 and 1201-1205
write_sent ==
    /\ w_pc = "loop"
    /\ SendLoopGoesOn(w_totalsent, w_len, w_send_retry)
    /\ \E sent \in 0..(w_len - w_totalsent) :
          IF sent = 0
          THEN /\ w_closed' = TRUE
               /\ w_pc' = "raised"
               /\ w_exit' = "zero"
               /\ UNCHANGED w_totalsent
          ELSE /\ w_totalsent' = w_totalsent + sent
               /\ UNCHANGED <<w_pc, w_exit, w_closed>>
    /\ UNCHANGED <<w_len, w_send_retry>>

\* s.send raises socket.error: lines 1189-1200
write_error ==
    /\ w_pc = "loop"
    /\ SendLoopGoesOn(w_totalsent, w_len, w_send_retry)
    /\ \E errno \in {"EWOULDBLOCK", "EMSGSIZE", "other"} :
          /\ w_send_retry' = w_send_retry + 1
          /\ w_pc' = IF errno = "EWOULDBLOCK" THEN "loop"
                     ELSE IF errno = "EMSGSIZE" THEN "collect"
                     ELSE "raised"
          /\ w_exit' = IF errno = "EWOULDBLOCK" THEN w_exit
                       ELSE IF errno = "EMSGSIZE" THEN "emsgsize"
                       ELSE "error"
    /\ UNCHANGED <<w_len, w_totalsent, w_closed>>

\* the condition of line 1182 is false: lines 1207-1223 follow, the handle
\* is added to fbk_sockets and _start_fbk_collector is called
write_loop_ends ==
    /\ w_pc = "loop"
    /\ ~SendLoopGoesOn(w_totalsent, w_len, w_send_retry)
    /\ w_pc' = "collect"
    /\ w_exit' = IF w_totalsent < w_len THEN "exhausted" ELSE "complete"
    /\ UNCHANGED <<w_len, w_totalsent, w_send_retry, w_closed>>

(***************************************************************************)
(* A target with one auxiliary feedback source declared before start()     *)
(* (add_additional_feedback_interface, client mode) and the constructor's  *)
(* client-mode interface: start() connects the auxiliary source, send_data *)
(* obtains the main handle and builds the ids of the handles to collect    *)
(* on, and the worker stores what it reads under these ids.                *)
(***************************************************************************)
VARIABLES
    x_pc,          \* "init", "started", "collect" (a worker is collecting)
    x_aux_ep,      \* the (host, port) of the auxiliary source
    x_hold,        \* self.hold_connection
    x_hclient,     \* self._hclient_hp2sock
    x_additional,  \* self._additional_fbk_sockets
    x_add_ids,     \* self._additional_fbk_ids
    x_open,        \* the handles created and not closed
    x_created,     \* history: the number of handles created
    x_fbk_sockets, \* fbk_sockets of the worker
    x_fbk_ids,     \* fbk_ids of the worker
    x_got,         \* the handles the worker has read data from
    x_store,       \* the feedback store: <<reference id, handle the data came from>>
    x_result,      \* how the last send_data ended: "none", "ok", "no_handle", "raised"
    x_sends,       \* the number of send_data calls
    x_aux_handles  \* history: the handles obtained for the auxiliary source

varsX == <<x_pc, x_aux_ep, x_hold, x_hclient, x_additional, x_add_ids, x_open,
           x_created, x_fbk_sockets, x_fbk_ids, x_got, x_store, x_result, x_sends,
           x_aux_handles>>

\* the send_data calls of a run
MaxAuxSends == 2
\* the fbk_id given to add_additional_feedback_interface
AuxId == "Auxiliary Feedback"
\* socket.socket(): a handle not created before
XFresh == x_created + 1
SeqToSet(q) == {q[k] : k \in 1..Len(q)}

\* _send_data, lines 1137-1146: the handles and ids taken from the
\* auxiliary registry on the first _send_data of a framework-initiated send
AdditionalFor(first_call, additional, add_ids) ==
    IF first_call /\ additional # <<>>
    THEN [sockets |-> additional, ids |-> add_ids]
    ELSE [sockets |-> <<>>, ids |-> <<>>]

\* _send_data, lines 1216-1219: the main handle s joins the handles to
\* collect on, under the default reference id of its interface
AddMainSocket(fbk, s) ==
    [sockets |-> Append(fbk.sockets, s),
     ids |-> Put(fbk.ids, s, DefaultFbkId)]

\* add_additional_feedback_interface(host, port, fbk_id=AuxId) was called on
\* NetworkTarget(hold_connection=hold): lines 366 and 473-474
InitXWith(aux_ep, hold) ==
    /\ x_pc = "init"
    /\ x_aux_ep = aux_ep
    /\ x_hold = Put(Put(<<>>, CtorEndpoint, hold), aux_ep, TRUE)
    /\ x_hclient = [e \in Endpoints |-> NoSock]
    /\ x_additional = <<>>
    /\ x_add_ids = <<>>
    /\ x_open = {}
    /\ x_created = 0
    /\ x_fbk_sockets = <<>>
    /\ x_fbk_ids = <<>>
    /\ x_got = {}
    /\ x_store = {}
    /\ x_result = "none"
    /\ x_sends = 0
    /\ x_aux_handles = {}

InitX == \E aux_ep \in Endpoints, hold \in BOOLEAN : InitXWith(aux_ep, hold)

\* the auxiliary source of the other specifications: on the constructor's
\* endpoint, which holds its connection
InitX_Idle == InitXWith(CtorEndpoint, TRUE)

\* start(): _connect_to_additional_feedback_sockets, lines 597-606, and
\* _raw_connect_to, lines 545-559
x_start ==
    /\ x_pc = "init"
    /\ \E ok \in BOOLEAN :
        LET s == ConnectToTarget(StreamType, ok, XFresh)
        IN  IF s = NoSock
            THEN UNCHANGED <<x_hclient, x_additional, x_add_ids, x_open, x_created,
                             x_aux_handles>>
            ELSE /\ x_hclient' = [x_hclient EXCEPT ![x_aux_ep] = s]
                 /\ x_created' = x_created + 1
                 /\ x_additional' = Append(x_additional, s)
                 /\ x_add_ids' = Put(x_add_ids, s, AuxId)
                 /\ x_open' = x_open \cup {s}
                 /\ x_aux_handles' = x_aux_handles \cup {s}
    /\ x_pc' = "started"
    /\ UNCHANGED <<x_aux_ep, x_hold, x_fbk_sockets, x_fbk_ids, x_got, x_store,
                   x_result, x_sends>>

\* send_data(data, from_fmk) to the constructor's interface: lines 683-714,
\* _connect_to_target and _send_data
x_send_data ==
    /\ x_pc = "started"
    /\ x_sends < MaxAuxSends
    /\ x_sends' = x_sends + 1
    /\ \E from_fmk \in BOOLEAN, ok \in BOOLEAN :
        LET reuse == ConnectReuses(x_hold[CtorEndpoint], x_hclient[CtorEndpoint])
            s == IF reuse THEN x_hclient[CtorEndpoint]
                 ELSE ConnectToTarget(StreamType, ok, XFresh)
            fbk == AdditionalFor(from_fmk, x_additional, x_add_ids)
        IN  IF s = NoSock
            THEN /\ x_result' = "no_handle"
                 /\ UNCHANGED <<x_pc, x_hclient, x_open, x_created, x_fbk_sockets,
                                x_fbk_ids>>
            ELSE /\ x_created' = IF reuse THEN x_created ELSE x_created + 1
                 /\ x_hclient' = IF ~reuse /\ x_hold[CtorEndpoint]
                                 THEN [x_hclient EXCEPT ![CtorEndpoint] = s]
                                 ELSE x_hclient
                 /\ x_open' = x_open \cup {s}
                 /\ IF s \in SeqToSet(fbk.sockets)
                    THEN \* epobj.register(s) of line 1176 on a handle that
                         \* line 1143 has registered: EEXIST
                         /\ x_result' = "raised"
                         /\ UNCHANGED <<x_pc, x_fbk_sockets, x_fbk_ids>>
                    ELSE /\ x_result' = "ok"
                         /\ x_pc' = "collect"
                         /\ x_fbk_sockets' = AddMainSocket(fbk, s).sockets
                         /\ x_fbk_ids' = AddMainSocket(fbk, s).ids
    /\ UNCHANGED <<x_aux_ep, x_hold, x_additional, x_add_ids, x_got, x_store,
                   x_aux_handles>>

\* the worker reads data from a handle: lines 1050-1087
x_read ==
    /\ x_pc = "collect"
    /\ \E s \in SeqToSet(x_fbk_sockets) \ x_got : x_got' = x_got \cup {s}
    /\ UNCHANGED <<x_pc, x_aux_ep, x_hold, x_hclient, x_additional, x_add_ids,
                   x_open, x_created, x_fbk_sockets, x_fbk_ids, x_store, x_result, x_sends,
                   x_aux_handles>>

\* the worker stores what it has read and closes what nothing holds:
\* lines 1108-1117
x_worker_ends ==
    /\ x_pc = "collect"
    /\ x_store' = x_store \cup {<<x_fbk_ids[s], s>> : s \in x_got}
    /\ x_open' = x_open \ {s \in SeqToSet(x_fbk_sockets) :
                               WorkerCloses(s, FALSE, SeqToSet(x_additional),
                                            {x_hclient[e] : e \in Endpoints}, {})}
    /\ x_got' = {}
    /\ x_fbk_sockets' = <<>>
    /\ x_fbk_ids' = <<>>
    /\ x_pc' = "started"
    /\ UNCHANGED <<x_aux_ep, x_hold, x_hclient, x_additional, x_add_ids, x_created,
                   x_result, x_sends, x_aux_handles>>

(***************************************************************************)
(* TargetFeedback (lines 246-304): the collector of feedback fragments.    *)
(* Worker threads call add_fbk_from; the driver iterates a snapshot        *)
(* (__iter__), consumes the collector (iter_and_cleanup_collector) and     *)
(* calls cleanup.  The statements inside `with self.fbk_lock` are one      *)
(* step; what a generator yields after its locked part is one step per     *)
(* entry.  A fragment is a sequence of characters; the collector is the    *)
(* ordered dictionary as a sequence of entries [ref, frags, ts].           *)
(***************************************************************************)
VARIABLES
    f_collector,  \* _feedback_collector and _feedback_collector_tstamped
    f_err,        \* _err_code
    f_bytes,      \* _tstamped_bstring is not None
    f_clock,      \* datetime.datetime.now(), as the count of its readings
    f_adding,     \* thread -> the add_fbk_from call it is in, before the lock
    f_drv,        \* the driver: "idle", "iter" or "drain" (inside a generator)
    f_pending,    \* the entries the running generator has still to yield
    f_last,       \* history: the call just made, the collector before and after it
    f_accepted,   \* history: ref -> the fragments add_fbk_from has appended
    f_delivered   \* history: the entries consuming iterations have yielded

varsF == <<f_collector, f_err, f_bytes, f_clock, f_adding, f_drv, f_pending,
           f_last, f_accepted, f_delivered>>

\* the add_fbk_from calls of a run
MaxAdds == 3
\* the worker threads
FbkThreads == {1, 2}
\* the reference ids the workers use
Refs == {"r1", "r2"}
\* the fragments: two words, and the first with a leading blank
Frags == {<<"a">>, <<"b">>, <<" ", "a">>}
NoAdd == [busy |-> FALSE, ref |-> "r1", fbk |-> <<>>, now |-> 0]
NoLast == [op |-> "none", ref |-> "r1", fbk |-> <<>>, pre |-> <<>>, post |-> <<>>,
           out |-> <<>>]

RECURSIVE LStrip(_)
LStrip(f) == IF f # <<>> /\ Head(f) = " " THEN LStrip(Tail(f)) ELSE f
RECURSIVE RStrip(_)
RStrip(f) == IF f # <<>> /\ f[Len(f)] = " " THEN RStrip(SubSeq(f, 1, Len(f) - 1))
             ELSE f
\* fbk.strip()
Strip(f) == RStrip(LStrip(f))

\* x in l, for a list l
InList(x, l) == \E k \in 1..Len(l) : l[k] = x
\* ref in collector
HasRef(collector, ref) == \E k \in 1..Len(collector) : collector[k].ref = ref
\* collector[ref], or <<>> when ref is not a key
FragsOf(collector, ref) ==
    IF HasRef(collector, ref)
    THEN (CHOOSE e \in {collector[k] : k \in 1..Len(collector)} : e.ref = ref).frags
    ELSE <<>>

\* TargetFeedback.add_fbk_from, lines 257-263: the collector afterwards
AddFbkFrom(collector, ref, fbk, now) ==
    LET c1 == IF HasRef(collector, ref) THEN collector
              ELSE Append(collector, [ref |-> ref, frags |-> <<>>, ts |-> <<>>])
    IN  [k \in 1..Len(c1) |->
            IF c1[k].ref = ref /\ ~InList(Strip(fbk), c1[k].frags)
            THEN [c1[k] EXCEPT !.frags = Append(@, fbk), !.ts = Append(@, now)]
            ELSE c1[k]]

\* TargetFeedback.has_fbk_collector
HasFbkCollector(collector) == Len(collector) > 0

\* TargetFeedback.__iter__, lines 269-271: what is yielded, and the collector
Iter(collector) == [out |-> collector, collector |-> collector]

\* a consuming iteration that leaves the collector as it is
IterAndKeepCollector(collector) == [out |-> collector, collector |-> collector]

\* TargetFeedback.iter_and_cleanup_collector, lines 276-280
IterAndCleanupCollector(collector) == [out |-> collector, collector |-> <<>>]

\* a cleanup that empties the collector too
CleanupWithCollector(collector) ==
    [bytes |-> FALSE, err |-> 0, collector |-> <<>>]

\* TargetFeedback.cleanup, lines 300-304
Cleanup(collector) == [bytes |-> FALSE, err |-> 0, collector |-> collector]

\* TargetFeedback(): lines 249-253
InitF ==
    /\ f_collector = <<>>
    /\ f_err = 0
    /\ f_bytes = TRUE
    /\ f_clock = 0
    /\ f_adding = [t \in FbkThreads |-> NoAdd]
    /\ f_drv = "idle"
    /\ f_pending = <<>>
    /\ f_last = NoLast
    /\ f_accepted = [r \in Refs |-> <<>>]
    /\ f_delivered = <<>>

\* a thread enters add_fbk_from(ref, fbk) and reads the time: line 256; it
\* has not reached the lock
add_fbk_from_call ==
    \E t \in FbkThreads, ref \in Refs, fbk \in Frags :
        /\ ~f_adding[t].busy
        /\ f_clock < MaxAdds
        /\ f_clock' = f_clock + 1
        /\ f_adding' = [f_adding EXCEPT ![t] = [busy |-> TRUE, ref |-> ref,
                                                fbk |-> fbk, now |-> f_clock + 1]]
        /\ f_last' = NoLast
        /\ UNCHANGED <<f_collector, f_err, f_bytes, f_drv, f_pending, f_accepted,
                       f_delivered>>

\* the locked part of add_fbk_from: lines 257-263
add_fbk_from ==
    \E t \in FbkThreads :
        /\ f_adding[t].busy
        /\ LET a == f_adding[t]
               post == AddFbkFrom(f_collector, a.ref, a.fbk, a.now)
           IN  /\ f_collector' = post
               /\ f_last' = [op |-> "add", ref |-> a.ref, fbk |-> a.fbk,
                             pre |-> f_collector, post |-> post, out |-> <<>>]
               /\ f_accepted' = [f_accepted EXCEPT ![a.ref] =
                                    IF FragsOf(post, a.ref) # FragsOf(f_collector, a.ref)
                                    THEN Append(@, a.fbk) ELSE @]
        /\ f_adding' = [f_adding EXCEPT ![t] = NoAdd]
        /\ UNCHANGED <<f_err, f_bytes, f_clock, f_drv, f_pending, f_delivered>>

\* the driver starts `for ... in feedback`: lines 269-271
\* (copy.copy is shallow: the entries to yield are those of the copy, their
\* lists are the collector's)
iter_begins ==
    /\ f_drv = "idle"
    /\ LET r == Iter(f_collector)
       IN  /\ f_collector' = r.collector
           /\ f_pending' = r.out
           /\ f_last' = [op |-> "iter", ref |-> "r1", fbk |-> <<>>,
                         pre |-> f_collector, post |-> r.collector, out |-> r.out]
    /\ f_drv' = "iter"
    /\ UNCHANGED <<f_err, f_bytes, f_clock, f_adding, f_accepted, f_delivered>>

\* the driver starts `for ... in feedback.iter_and_cleanup_collector()`:
\* lines 276-280
iter_and_cleanup_begins ==
    /\ f_drv = "idle"
    /\ LET r == IterAndCleanupCollector(f_collector)
       IN  /\ f_collector' = r.collector
           /\ f_pending' = r.out
           /\ f_last' = [op |-> "drain", ref |-> "r1", fbk |-> <<>>,
                         pre |-> f_collector, post |-> r.collector, out |-> r.out]
    /\ f_drv' = "drain"
    /\ UNCHANGED <<f_err, f_bytes, f_clock, f_adding, f_accepted, f_delivered>>

\* the generator yields its next entry, or ends: lines 272-273 and 281-282
yield_next ==
    /\ f_drv \in {"iter", "drain"}
    /\ IF f_pending = <<>>
       THEN /\ f_drv' = "idle"
            /\ UNCHANGED <<f_pending, f_delivered>>
       ELSE /\ f_pending' = Tail(f_pending)
            /\ f_delivered' = IF f_drv = "drain"
                              THEN Append(f_delivered, Head(f_pending))
                              ELSE f_delivered
            /\ UNCHANGED f_drv
    /\ f_last' = NoLast
    /\ UNCHANGED <<f_collector, f_err, f_bytes, f_clock, f_adding, f_accepted>>

\* set_error_code, by a worker or by send_data: line 285
set_error_code ==
    /\ \E e \in {-2, -1} : f_err' = e
    /\ f_err = 0
    /\ f_last' = NoLast
    /\ UNCHANGED <<f_collector, f_bytes, f_clock, f_adding, f_drv, f_pending,
                   f_accepted, f_delivered>>

\* the driver calls cleanup(): lines 300-304
cleanup ==
    /\ f_drv = "idle"
    /\ LET r == Cleanup(f_collector)
       IN  /\ f_collector' = r.collector
           /\ f_bytes' = r.bytes
           /\ f_err' = r.err
           /\ f_last' = [op |-> "cleanup", ref |-> "r1", fbk |-> <<>>,
                         pre |-> f_collector, post |-> r.collector, out |-> <<>>]
    /\ UNCHANGED <<f_clock, f_adding, f_drv, f_pending, f_accepted, f_delivered>>

(***************************************************************************)
(* The synchronous sends of user code: Target.send_data_sync and           *)
(* send_multiple_data_sync (lines 213-231) called by several threads on a  *)
(* started NetworkTarget.  _send_data_lock is taken by the `with` of lines *)
(* 222 and 230 and released when its block is left, by a return or by an   *)
(* exception.  Inside the block a send to a server-mode interface asks for *)
(* _server_thread_lock in _listen_to_target (lines 862 and 890); a         *)
(* feedback worker asks for it in _check_and_handle_obsolete_socket (line  *)
(* 993) and, once stop() has set the registries to None, raises at line    *)
(* 994 before any release.                                                 *)
(***************************************************************************)
VARIABLES
    y_phase,      \* "started" or "stopped" (the registries are None)
    y_pc,         \* thread -> "idle", "lock" (at the with), "send", "blocked"
    y_op,         \* thread -> the method it called last
    y_result,     \* thread -> how its last call ended: "none", "returned", "raised"
    y_lock,       \* the thread that holds _send_data_lock, 0 for none
    y_srv_lost,   \* _server_thread_lock is held by a thread that has ended
    y_workers,    \* the feedback workers that are running
    y_calls       \* history: the number of synchronous sends called

varsY == <<y_phase, y_pc, y_op, y_result, y_lock, y_srv_lost, y_workers, y_calls>>

\* the synchronous sends of a run
MaxSyncCalls == 3
\* the feedback workers running at a time
MaxSyncWorkers == 2
\* the threads of user code
SyncThreads == {1, 2}

InitY ==
    /\ y_phase = "started"
    /\ y_pc = [t \in SyncThreads |-> "idle"]
    /\ y_op = [t \in SyncThreads |-> "none"]
    /\ y_result = [t \in SyncThreads |-> "none"]
    /\ y_lock = 0
    /\ y_srv_lost = FALSE
    /\ y_workers = 0
    /\ y_calls = 0

\* a thread calls send_data_sync or send_multiple_data_sync and reaches the
\* with of line 222 or 230
sync_call ==
    \E t \in SyncThreads, op \in {"send_data_sync", "send_multiple_data_sync"} :
        /\ y_pc[t] = "idle"
        /\ y_calls < MaxSyncCalls
        /\ y_calls' = y_calls + 1
        /\ y_pc' = [y_pc EXCEPT ![t] = "lock"]
        /\ y_op' = [y_op EXCEPT ![t] = op]
        /\ y_result' = [y_result EXCEPT ![t] = "none"]
        /\ UNCHANGED <<y_phase, y_lock, y_srv_lost, y_workers>>

\* the with statement acquires _send_data_lock: lines 222 and 230
sync_acquire ==
    \E t \in SyncThreads :
        /\ y_pc[t] = "lock"
        /\ y_lock = 0
        /\ y_lock' = t
        /\ y_pc' = [y_pc EXCEPT ![t] = "send"]
        /\ UNCHANGED <<y_phase, y_op, y_result, y_srv_lost, y_workers, y_calls>>

\* send_data or send_multiple_data inside the with: lines 682-767.  On a
\* stopped target it raises on the registries (None); a client-mode send
\* returns after _start_fbk_collector has started a worker, or raises
\* TargetStuck; a server-mode send asks for _server_thread_lock first
sync_send ==
    \E t \in SyncThreads, sm \in BOOLEAN, out \in {"returned", "raised"} :
        /\ y_pc[t] = "send"
        /\ y_lock = t
        /\ y_phase = "stopped" => out = "raised"
        /\ IF y_phase = "started" /\ sm /\ y_srv_lost
           THEN \* lines 862 and 890: the lock is never released
                /\ y_pc' = [y_pc EXCEPT ![t] = "blocked"]
                /\ UNCHANGED <<y_result, y_lock, y_workers>>
           ELSE \* the with block is left: the lock is released
                /\ y_pc' = [y_pc EXCEPT ![t] = "idle"]
                /\ y_result' = [y_result EXCEPT ![t] = out]
                /\ y_lock' = 0
                /\ y_workers' = IF out = "returned" /\ ~sm
                                   /\ y_workers < MaxSyncWorkers
                                THEN y_workers + 1 ELSE y_workers
        /\ UNCHANGED <<y_phase, y_op, y_srv_lost, y_calls>>

\* after stop() a worker meets b'' or an error event and calls
\* _check_and_handle_obsolete_socket: line 993 acquires _server_thread_lock,
\* line 994 raises on the registries (None), and the thread ends
sync_worker_dies ==
    /\ y_workers > 0
    /\ y_phase = "stopped"
    /\ ~y_srv_lost
    /\ y_srv_lost' = TRUE
    /\ y_workers' = y_workers - 1
    /\ UNCHANGED <<y_phase, y_pc, y_op, y_result, y_lock, y_calls>>

\* a worker ends after its collection: lines 1108-1126
sync_worker_ends ==
    /\ y_workers > 0
    /\ y_workers' = y_workers - 1
    /\ UNCHANGED <<y_phase, y_pc, y_op, y_result, y_lock, y_srv_lost, y_calls>>

\* stop(), lines 658-680, and start(), lines 629-656, by the framework
sync_stop ==
    /\ y_phase = "started"
    /\ y_phase' = "stopped"
    /\ UNCHANGED <<y_pc, y_op, y_result, y_lock, y_srv_lost, y_workers, y_calls>>

sync_start ==
    /\ y_phase = "stopped"
    /\ y_phase' = "started"
    /\ UNCHANGED <<y_pc, y_op, y_result, y_lock, y_srv_lost, y_workers, y_calls>>

(***************************************************************************)
(* send_multiple_data (lines 717-767) on three interfaces: a client-mode   *)
(* one that holds its connection, a client-mode one that does not, and a   *)
(* server-mode stream one.  A payload is the index it has in data_list;    *)
(* d_written records every write of a payload on a handle, by the driver   *)
(* in _send_data or by the accept loop in _handle_target_connection.       *)
(***************************************************************************)
VARIABLES
    d_pc,         \* the driver: "idle", "loop", "send", "wait", "done"
    d_list,       \* data_list: the interface of each payload
    d_i,          \* the payloads the loop of line 722 has handled
    d_sockets,    \* the list sockets
    d_data_refs,  \* data_refs: handle -> payload, as a set of pairs
    d_events,     \* connected_client_event: (host, port) -> the payload whose
                  \* event is stored, as a set of pairs
    d_ev_set,     \* the payloads whose event is set
    d_share,      \* _server_thread_share[(host, port)]: the payload of args, 0 before
    d_acc,        \* the accept loop of the server-mode pair: "none", "loop", "dead"
    d_hclient,    \* _hclient_hp2sock of the holding interface, NoSock if none
    d_next,       \* the next handle socket.socket() or accept() returns
    d_peers,      \* the peers that have connected
    d_written,    \* history: the writes, [data |-> payload, s |-> handle]
    d_failed,     \* history: the payloads recorded as failed in the feedback
    d_result      \* "none", "returned", or the exception the call raised

varsD == <<d_pc, d_list, d_i, d_sockets, d_data_refs, d_events, d_ev_set, d_share,
           d_acc, d_hclient, d_next, d_peers, d_written, d_failed, d_result>>

\* the longest data_list
MaxBatch == 3
\* the peers that connect to the listener in a run
MaxPeers == 2

\* the interfaces: (host, port) with server_mode and hold_connection of it
HeldClient == [ep |-> 1, server_mode |-> FALSE, hold |-> TRUE]
PlainClient == [ep |-> 2, server_mode |-> FALSE, hold |-> FALSE]
StreamServer == [ep |-> 3, server_mode |-> TRUE, hold |-> FALSE]
DispatchDests == {HeldClient, PlainClient, StreamServer}

InitD ==
    /\ d_pc = "idle"
    /\ d_list = <<>>
    /\ d_i = 0
    /\ d_sockets = <<>>
    /\ d_data_refs = {}
    /\ d_events = {}
    /\ d_ev_set = {}
    /\ d_share = 0
    /\ d_acc = "none"
    /\ d_hclient = NoSock
    /\ d_next = 1
    /\ d_peers = 0
    /\ d_written = <<>>
    /\ d_failed = {}
    /\ d_result = "none"

\* `s not in sockets`, line 739
InSockets(s, sockets) == \E k \in 1..Len(sockets) : sockets[k] = s

\* lines 739-741: the handle and its payload are added unless the handle is
\* in the list already
AppendUnlessListed(s, data, sockets, data_refs) ==
    IF ~InSockets(s, sockets)
    THEN [sockets |-> Append(sockets, s), data_refs |-> data_refs \cup {<<s, data>>}]
    ELSE [sockets |-> sockets, data_refs |-> data_refs]

\* connected_client_event[(host, port)] = threading.Event(), line 725
PutEvent(events, ep, data) == {p \in events : p[1] # ep} \cup {<<ep, data>>}

\* send_multiple_data(data_list): lines 717-722, payloads that are not None
d_call ==
    /\ d_pc = "idle"
    /\ \E n \in 1..MaxBatch : \E l \in [1..n -> DispatchDests] :
          d_list' = l
    /\ d_pc' = "loop"
    /\ UNCHANGED <<d_i, d_sockets, d_data_refs, d_events, d_ev_set, d_share, d_acc,
                   d_hclient, d_next, d_peers, d_written, d_failed, d_result>>

\* one payload of a client-mode interface: _connect_to_target (797-832) and
\* lines 732-741
d_connect ==
    /\ d_pc = "loop"
    /\ ~d_list[d_i + 1].server_mode
    /\ \E ok \in BOOLEAN :
        LET dst == d_list[d_i + 1]
            held == dst.hold /\ d_hclient # NoSock
            s == IF held THEN d_hclient ELSE IF ok THEN d_next ELSE NoSock
            a == AppendUnlessListed(s, d_i + 1, d_sockets, d_data_refs)
        IN  /\ held => ok
            /\ d_next' = IF held \/ ~ok THEN d_next ELSE d_next + 1
            /\ d_hclient' = IF ~held /\ ok /\ dst.hold THEN s ELSE d_hclient
            /\ IF s = NoSock
               THEN /\ d_failed' = d_failed \cup {d_i + 1}
                    /\ UNCHANGED <<d_sockets, d_data_refs>>
               ELSE /\ d_sockets' = a.sockets
                    /\ d_data_refs' = a.data_refs
                    /\ UNCHANGED d_failed
    /\ d_i' = d_i + 1
    /\ d_pc' = IF d_i + 1 = Len(d_list) THEN "send" ELSE "loop"
    /\ UNCHANGED <<d_list, d_events, d_ev_set, d_share, d_acc, d_peers, d_written,
                   d_result>>

\* one payload of the server-mode interface: lines 724-730 and
\* _listen_to_target, which binds and starts the accept loop at the first
\* call (872-897) and replaces the stored arguments at the later ones (862-863)
d_listen ==
    /\ d_pc = "loop"
    /\ d_list[d_i + 1].server_mode
    /\ d_events' = PutEvent(d_events, d_list[d_i + 1].ep, d_i + 1)
    /\ d_share' = d_i + 1
    /\ d_acc' = IF d_acc = "none" THEN "loop" ELSE d_acc
    /\ d_i' = d_i + 1
    /\ d_pc' = IF d_i + 1 = Len(d_list) THEN "send" ELSE "loop"
    /\ UNCHANGED <<d_list, d_sockets, d_data_refs, d_ev_set, d_hclient, d_next,
                   d_peers, d_written, d_failed, d_result>>

\* _send_data(sockets, data_refs, ...), line 743: sockets[0] of an empty list
\* raises (line 1148); select gives the writable handles (line 1170), each of
\* them is written its payload (1173-1204), none writable is TargetStuck (1226)
d_send ==
    /\ d_pc = "send"
    /\ \E ready \in SUBSET {d_sockets[k] : k \in 1..Len(d_sockets)} :
        IF d_sockets = <<>>
        THEN /\ d_result' = "IndexError"
             /\ d_pc' = "done"
             /\ UNCHANGED d_written
        ELSE IF ready = {}
        THEN /\ d_result' = "TargetStuck"
             /\ d_pc' = "done"
             /\ UNCHANGED d_written
        ELSE /\ d_written' = d_written \o
                    SelectSeq([k \in 1..Len(d_sockets) |->
                                  [data |-> (CHOOSE p \in d_data_refs :
                                                 p[1] = d_sockets[k])[2],
                                   s |-> d_sockets[k]]],
                              LAMBDA r : r.s \in ready)
             /\ d_pc' = IF d_events # {} THEN "wait" ELSE "done"
             /\ d_result' = IF d_events # {} THEN d_result ELSE "returned"
    /\ UNCHANGED <<d_list, d_i, d_sockets, d_data_refs, d_events, d_ev_set, d_share,
                   d_acc, d_hclient, d_next, d_peers, d_failed>>

\* the accept loop takes a connection: lines 910 and 922-924, then
\* _handle_target_connection sets the event of the stored arguments (line
\* 973) and _send_data writes their payload to the peer; TargetStuck ends the
\* thread
d_accept ==
    /\ d_acc = "loop"
    /\ d_peers < MaxPeers
    /\ d_peers' = d_peers + 1
    /\ d_next' = d_next + 1
    /\ d_ev_set' = d_ev_set \cup {d_share}
    /\ \E wrote \in BOOLEAN :
        IF wrote
        THEN /\ d_written' = Append(d_written, [data |-> d_share, s |-> d_next])
             /\ UNCHANGED d_acc
        ELSE /\ d_acc' = "dead"
             /\ UNCHANGED d_written
    /\ UNCHANGED <<d_pc, d_list, d_i, d_sockets, d_data_refs, d_events, d_share,
                   d_hclient, d_failed, d_result>>

\* the wait for the peers, lines 746-758, and the report of the pairs whose
\* stored event is not set, lines 760-767: the text names the pair, which is
\* taken for every payload of the pair
d_wait ==
    /\ d_pc = "wait"
    /\ d_failed' = d_failed \cup
          {i \in 1..Len(d_list) :
              \E p \in d_events : p[1] = d_list[i].ep /\ p[2] \notin d_ev_set}
    /\ d_pc' = "done"
    /\ d_result' = "returned"
    /\ UNCHANGED <<d_list, d_i, d_sockets, d_data_refs, d_events, d_ev_set, d_share,
                   d_acc, d_hclient, d_next, d_peers, d_written>>

(***************************************************************************)
(* The dynamic interfaces of a started NetworkTarget: listen_to,           *)
(* connect_to, the inbound connections of the accept loops                 *)
(* (_server_main with _handle_connection_to_fbk_server),                   *)
(* remove_dynamic_interface and remove_all_dynamic_interfaces.  The        *)
(* transport is the stream one.  The (host, port) pairs are Endpoints;     *)
(* CtorEndpoint is the pair of the static interface as well.               *)
(***************************************************************************)
VARIABLES
    dy_sock,         \* handle -> "free" (not created), "open", "closed"
    dy_hold,         \* self.hold_connection: pair -> "unset", "True", "False"
    dy_hclient,      \* self._hclient_hp2sock: pair -> handle, NoSock if none
    dy_server,       \* self._server_sock2hp: pair -> listener, NoSock if none
    dy_share,        \* self._server_thread_share: pair -> ref_id of args
    dy_acc,          \* the accept loop of a pair: "none", "loop"
    dy_dgram,        \* pair -> its listener is a datagram socket
    dy_raw,          \* pair -> ref_id -> the _raw_server_main threads in recvfrom
    dy_add_sockets,  \* self._additional_fbk_sockets, a list
    dy_add_ids,      \* self._additional_fbk_ids, as a set of <<handle, ref_id>>
    dy_add_lengths,  \* the keys of self._additional_fbk_lengths
    dy_ifaces,       \* self._dynamic_interfaces: pair -> <<req_sock, ref_id>>
    dy_made,         \* history: handle -> the pair it was created for
    dy_gone,         \* history: the pairs removed and not created again
    dy_calls         \* history: the calls, inbound connections and datagrams so far

varsI == <<dy_sock, dy_hold, dy_hclient, dy_server, dy_share, dy_acc, dy_dgram, dy_raw,
           dy_add_sockets, dy_add_ids, dy_add_lengths, dy_ifaces, dy_made,
           dy_gone, dy_calls>>

\* the handles created in a run
MaxDynHandles == 3
\* the calls, inbound connections and datagrams of a run
MaxDynCalls == 4
\* the _raw_server_main threads of a run
MaxRawThreads == 2

DynHandles == 1..MaxDynHandles
\* the ref_id arguments
DynRefs == {"A", "B"}
NoRef == "none"
\* the entry of a pair that is no dynamic interface
NoIface == <<NoSock, NoRef>>
\* req_sock of an interface made by listen_to: the value -1 of line 510
ListenMark == -1

DynFresh == CHOOSE h \in DynHandles : dy_sock[h] = "free" /\
                \A k \in DynHandles : dy_sock[k] = "free" => h <= k
DynHasFresh == \E h \in DynHandles : dy_sock[h] = "free"

\* NetworkTarget() followed by start(): lines 371-393 and 629-656
InitI ==
    /\ dy_sock = [h \in DynHandles |-> "free"]
    /\ dy_hold = [e \in Endpoints |-> IF e = CtorEndpoint THEN "False" ELSE "unset"]
    /\ dy_hclient = [e \in Endpoints |-> NoSock]
    /\ dy_server = [e \in Endpoints |-> NoSock]
    /\ dy_share = [e \in Endpoints |-> NoRef]
    /\ dy_acc = [e \in Endpoints |-> "none"]
    /\ dy_dgram = [e \in Endpoints |-> FALSE]
    /\ dy_raw = [e \in Endpoints |-> [r \in DynRefs |-> 0]]
    /\ dy_add_sockets = <<>>
    /\ dy_add_ids = {}
    /\ dy_add_lengths = {}
    /\ dy_ifaces = [e \in Endpoints |-> NoIface]
    /\ dy_made = [h \in DynHandles |-> 0]
    /\ dy_gone = {}
    /\ dy_calls = 0

BoolStr(b) == IF b THEN "True" ELSE "False"

\* list.remove(s): the first occurrence is taken out
ListRemove(l, s) ==
    LET first == CHOOSE k \in 1..Len(l) : l[k] = s /\ \A j \in 1..(k - 1) : l[j] # s
    IN  [k \in 1..(Len(l) - 1) |-> IF k < first THEN l[k] ELSE l[k + 1]]

\* the three collections of the auxiliary registry with s registered under
\* ref_id: lines 554-557 (unless listed) and 963-966 (always)
AuxWith(s, ref_id, reg) ==
    [sockets |-> Append(reg.sockets, s),
     ids |-> {p \in reg.ids : p[1] # s} \cup {<<s, ref_id>>},
     lengths |-> reg.lengths \cup {s}]

\* lines 579-582 and 584-587: s is taken out of the three collections
AuxWithout(s, reg) ==
    [sockets |-> ListRemove(reg.sockets, s),
     ids |-> {p \in reg.ids : p[1] # s},
     lengths |-> reg.lengths \ {s}]

AuxReg == [sockets |-> dy_add_sockets, ids |-> dy_add_ids, lengths |-> dy_add_lengths]

\* the loop of lines 578-582 over a copy of _additional_fbk_ids
RECURSIVE AuxWithoutAll(_, _)
AuxWithoutAll(S, reg) ==
    IF S = {} THEN reg
    ELSE LET s == CHOOSE x \in S : TRUE
         IN  AuxWithoutAll(S \ {s}, AuxWithout(s, reg))

\* the state remove_dynamic_interface(host, port) leaves, lines 562-588,
\* from the state st (a record of the variables it reads and writes)
RemoveDynamicInterface(e, st) ==
    IF st.ifaces[e] = NoIface THEN st
    ELSE LET req_sock == st.ifaces[e][1]
             ref_id == st.ifaces[e][2]
             held == st.hold[e] # "unset" /\ st.hclient[e] # NoSock
             reg == IF req_sock = ListenMark
                    THEN AuxWithoutAll({p[1] : p \in {q \in st.reg.ids : q[2] = ref_id}},
                                       st.reg)
                    ELSE IF \E k \in 1..Len(st.reg.sockets) : st.reg.sockets[k] = req_sock
                    THEN AuxWithout(req_sock, st.reg)
                    ELSE st.reg
         IN  [hold |-> [st.hold EXCEPT ![e] = "unset"],
              hclient |-> IF held THEN [st.hclient EXCEPT ![e] = NoSock] ELSE st.hclient,
              ifaces |-> [st.ifaces EXCEPT ![e] = NoIface],
              reg |-> reg,
              sock |-> IF req_sock # ListenMark /\ req_sock # NoSock
                       THEN [st.sock EXCEPT ![req_sock] = "closed"]
                       ELSE st.sock,
              gone |-> st.gone \cup {e}]

DynState == [hold |-> dy_hold, hclient |-> dy_hclient, ifaces |-> dy_ifaces,
             reg |-> AuxReg, sock |-> dy_sock, gone |-> dy_gone]

SetDynState(st) ==
    /\ dy_hold' = st.hold
    /\ dy_hclient' = st.hclient
    /\ dy_ifaces' = st.ifaces
    /\ dy_add_sockets' = st.reg.sockets
    /\ dy_add_ids' = st.reg.ids
    /\ dy_add_lengths' = st.reg.lengths
    /\ dy_sock' = st.sock
    /\ dy_gone' = st.gone

\* connect_to(host, port, ref_id, hold_connection=hold): lines 533-559 with
\* _connect_to_target (796-832); ok is the outcome of connect
dy_connect_to ==
    \E e \in Endpoints, ref_id \in DynRefs, hold \in BOOLEAN, ok \in BOOLEAN :
        LET held == hold /\ dy_hclient[e] # NoSock
            s == IF held THEN dy_hclient[e] ELSE IF ok THEN DynFresh ELSE NoSock
            listed == \E k \in 1..Len(dy_add_sockets) : dy_add_sockets[k] = s
            reg == IF s = NoSock \/ listed THEN AuxReg ELSE AuxWith(s, ref_id, AuxReg)
        IN  /\ dy_calls < MaxDynCalls
            /\ held => ok
            /\ (~held /\ ok) => DynHasFresh
            /\ dy_calls' = dy_calls + 1
            /\ dy_hold' = [dy_hold EXCEPT ![e] = BoolStr(hold)]
            /\ dy_sock' = IF ~held /\ ok THEN [dy_sock EXCEPT ![s] = "open"] ELSE dy_sock
            /\ dy_made' = IF ~held /\ ok THEN [dy_made EXCEPT ![s] = e] ELSE dy_made
            /\ dy_hclient' = IF ~held /\ ok /\ hold THEN [dy_hclient EXCEPT ![e] = s]
                             ELSE dy_hclient
            /\ dy_add_sockets' = reg.sockets
            /\ dy_add_ids' = reg.ids
            /\ dy_add_lengths' = reg.lengths
            /\ dy_ifaces' = [dy_ifaces EXCEPT ![e] = <<s, ref_id>>]
            /\ dy_gone' = dy_gone \ {e}
            /\ UNCHANGED <<dy_server, dy_share, dy_acc, dy_dgram, dy_raw>>

\* the _raw_server_main threads that have not ended
RawThreads ==
    LET n(e) == dy_raw[e]["A"] + dy_raw[e]["B"]
    IN  n(1) + n(2)

\* start_raw_server(serversocket) for the pair e, the thread reads the stored
\* arguments: lines 837-840 and 928-929
StartRawServer(e, ref_id) == [dy_raw EXCEPT ![e][ref_id] = @ + 1]

\* listen_to(host, port, ref_id, socket_type, hold_connection=hold): lines
\* 502-530 with _listen_to_target (835-904); bound is the outcome of bind,
\* dgram says that socket_type is a datagram type
dy_listen_to ==
    \E e \in Endpoints, ref_id \in DynRefs, hold \in BOOLEAN, bound \in BOOLEAN,
       dgram \in BOOLEAN :
        LET listening == dy_server[e] # NoSock
        IN  /\ dy_calls < MaxDynCalls
            /\ listening => bound /\ dgram = dy_dgram[e]
            /\ (~listening /\ bound) => DynHasFresh
            /\ dy_calls' = dy_calls + 1
            /\ dy_hold' = [dy_hold EXCEPT ![e] = BoolStr(hold)]
            /\ IF listening
               THEN \* lines 849-870: the serversocket of a datagram pair is in
                    \* _last_client_hp2sock since line 899
                    /\ dy_share' = [dy_share EXCEPT ![e] = ref_id]
                    /\ IF dgram /\ hold
                       THEN /\ RawThreads < MaxRawThreads
                            /\ dy_raw' = StartRawServer(e, ref_id)
                       ELSE UNCHANGED dy_raw
                    /\ UNCHANGED <<dy_sock, dy_made, dy_server, dy_acc, dy_dgram>>
               ELSE IF bound
               THEN \* lines 872-902
                    /\ dy_sock' = [dy_sock EXCEPT ![DynFresh] = "open"]
                    /\ dy_made' = [dy_made EXCEPT ![DynFresh] = e]
                    /\ dy_server' = [dy_server EXCEPT ![e] = DynFresh]
                    /\ dy_share' = [dy_share EXCEPT ![e] = ref_id]
                    /\ dy_dgram' = [dy_dgram EXCEPT ![e] = dgram]
                    /\ IF dgram
                       THEN /\ RawThreads < MaxRawThreads
                            /\ dy_raw' = StartRawServer(e, ref_id)
                            /\ UNCHANGED dy_acc
                       ELSE /\ dy_acc' = [dy_acc EXCEPT ![e] = "loop"]
                            /\ UNCHANGED dy_raw
               ELSE \* lines 885-887
                    UNCHANGED <<dy_sock, dy_made, dy_server, dy_share, dy_acc, dy_dgram,
                                dy_raw>>
            /\ dy_ifaces' = [dy_ifaces EXCEPT ![e] = <<ListenMark, ref_id>>]
            /\ dy_gone' = dy_gone \ {e}
            /\ UNCHANGED <<dy_hclient, dy_add_sockets, dy_add_ids, dy_add_lengths>>

\* a _raw_server_main thread of a pair receives a datagram (line 933) and
\* _handle_connection_to_fbk_server registers the serversocket (957, 960-966)
dy_datagram ==
    \E e \in Endpoints, ref_id \in DynRefs :
        /\ dy_raw[e][ref_id] > 0
        /\ dy_sock[dy_server[e]] = "open"
        /\ dy_calls < MaxDynCalls
        /\ dy_calls' = dy_calls + 1
        /\ dy_raw' = [dy_raw EXCEPT ![e][ref_id] = @ - 1]
        /\ LET reg == AuxWith(dy_server[e], ref_id, AuxReg)
           IN  /\ dy_add_sockets' = reg.sockets
               /\ dy_add_ids' = reg.ids
               /\ dy_add_lengths' = reg.lengths
        /\ UNCHANGED <<dy_sock, dy_hold, dy_hclient, dy_server, dy_share, dy_acc,
                       dy_dgram, dy_ifaces, dy_made, dy_gone>>

\* a _raw_server_main thread ends without a datagram: the timeout of line
\* 936, or the closed serversocket of line 939
dy_raw_ends ==
    \E e \in Endpoints, ref_id \in DynRefs :
        /\ dy_raw[e][ref_id] > 0
        /\ dy_raw' = [dy_raw EXCEPT ![e][ref_id] = @ - 1]
        /\ UNCHANGED <<dy_sock, dy_hold, dy_hclient, dy_server, dy_share, dy_acc,
                       dy_dgram, dy_add_sockets, dy_add_ids, dy_add_lengths, dy_ifaces,
                       dy_made, dy_gone, dy_calls>>

\* the accept loop of a pair takes a connection (lines 910, 922-924) and
\* _handle_connection_to_fbk_server registers it (960-966)
dy_inbound ==
    \E e \in Endpoints :
        /\ dy_acc[e] = "loop"
        /\ dy_sock[dy_server[e]] = "open"
        /\ dy_calls < MaxDynCalls
        /\ DynHasFresh
        /\ dy_calls' = dy_calls + 1
        /\ dy_sock' = [dy_sock EXCEPT ![DynFresh] = "open"]
        /\ dy_made' = [dy_made EXCEPT ![DynFresh] = e]
        /\ LET reg == AuxWith(DynFresh, dy_share[e], AuxReg)
           IN  /\ dy_add_sockets' = reg.sockets
               /\ dy_add_ids' = reg.ids
               /\ dy_add_lengths' = reg.lengths
        /\ UNCHANGED <<dy_hold, dy_hclient, dy_server, dy_share, dy_acc, dy_dgram,
                       dy_raw, dy_ifaces, dy_gone>>

\* remove_dynamic_interface(host, port): lines 562-588
dy_remove ==
    \E e \in Endpoints :
        /\ dy_ifaces[e] # NoIface
        /\ SetDynState(RemoveDynamicInterface(e, DynState))
        /\ UNCHANGED <<dy_server, dy_share, dy_acc, dy_dgram, dy_raw, dy_made,
                       dy_calls>>

\* remove_all_dynamic_interfaces(): lines 591-594, on two or more interfaces
dy_remove_all ==
    /\ \A e \in Endpoints : dy_ifaces[e] # NoIface
    /\ SetDynState(RemoveDynamicInterface(2, RemoveDynamicInterface(1, DynState)))
    /\ UNCHANGED <<dy_server, dy_share, dy_acc, dy_dgram, dy_raw, dy_made, dy_calls>>

(***************************************************************************)
(* The date of the last acknowledgment: _before_sending_data (lines        *)
(* 1253-1258) resets it for a send of the framework, and a feedback        *)
(* worker stores the date of its first pass with a readable handle (lines  *)
(* 1044-1049, _register_last_ack_date).  Dates are the ticks of a clock    *)
(* that starts at 1; NoDate is None.                                       *)
(***************************************************************************)
VARIABLES
    ak_now,        \* datetime.datetime.now()
    ak_last,       \* self._last_ack_date
    ak_sid,        \* self._sending_id
    ak_from_fmk,   \* from_fmk of the last send
    ak_workers,    \* the feedback workers
    ak_first       \* history: operation -> the date of its first readiness event

varsK == <<ak_now, ak_last, ak_sid, ak_from_fmk, ak_workers, ak_first>>

\* the last tick of the clock
MaxAckTime == 3
\* the workers of a run
MaxAckWorkers == 3
\* the sends of the framework in a run
MaxAckOps == 2

NoDate == 0
AckIdle == [st |-> "free", send_id |-> 0, from_fmk |-> FALSE, first_pass |-> TRUE]

\* the state after start(): lines 647 and 652
InitK ==
    /\ ak_now = 1
    /\ ak_last = NoDate
    /\ ak_sid = 0
    /\ ak_from_fmk = FALSE
    /\ ak_workers = [w \in 1..MaxAckWorkers |-> AckIdle]
    /\ ak_first = [o \in 1..MaxAckOps |-> NoDate]

AckFree == {w \in 1..MaxAckWorkers : ak_workers[w].st = "free"}
AckSlot == CHOOSE w \in AckFree : \A v \in AckFree : w <= v

\* lines 1046-1049: the date of the first such pass of the worker is stored
RegisterFirstPass(first_pass, last, now) == IF first_pass THEN now ELSE last

\* the thread _start_fbk_collector starts: lines 1234-1239
AckWorker(from_fmk) ==
    [st |-> "run", send_id |-> ak_sid', from_fmk |-> from_fmk, first_pass |-> TRUE]

\* send_data or send_multiple_data: _before_sending_data, then _send_data
\* starts a worker unless no handle was obtained
ak_send ==
    \E from_fmk \in BOOLEAN, spawned \in BOOLEAN :
        /\ from_fmk => ak_sid < MaxAckOps
        /\ spawned => AckFree # {}
        /\ ak_last' = IF from_fmk THEN NoDate ELSE ak_last
        /\ ak_sid' = IF from_fmk THEN ak_sid + 1 ELSE ak_sid
        /\ ak_from_fmk' = from_fmk
        /\ ak_workers' = IF spawned
                         THEN [ak_workers EXCEPT ![AckSlot] = AckWorker(from_fmk)]
                         ELSE ak_workers
        /\ UNCHANGED <<ak_now, ak_first>>

\* a peer connects to the listener of a server-mode send: the accept loop
\* starts a worker with the arguments of the last send (lines 922-924, 975)
ak_accept ==
    /\ AckFree # {}
    /\ ak_workers' = [ak_workers EXCEPT ![AckSlot] =
                         [st |-> "run", send_id |-> ak_sid, from_fmk |-> ak_from_fmk,
                          first_pass |-> TRUE]]
    /\ UNCHANGED <<ak_now, ak_last, ak_sid, ak_from_fmk, ak_first>>

\* time passes
ak_tick ==
    /\ ak_now < MaxAckTime
    /\ ak_now' = ak_now + 1
    /\ UNCHANGED <<ak_last, ak_sid, ak_from_fmk, ak_workers, ak_first>>

\* a pass of the loop of a worker with ready_to_read not empty: lines 1044-1049
ak_ready ==
    \E w \in 1..MaxAckWorkers :
        /\ ak_workers[w].st = "run"
        /\ ak_last' = RegisterFirstPass(ak_workers[w].first_pass, ak_last, ak_now)
        /\ ak_workers' = [ak_workers EXCEPT ![w].first_pass = FALSE]
        /\ ak_first' = IF /\ ak_workers[w].from_fmk
                          /\ ak_workers[w].send_id = ak_sid
                          /\ ak_first[ak_sid] = NoDate
                       THEN [ak_first EXCEPT ![ak_sid] = ak_now]
                       ELSE ak_first
        /\ UNCHANGED <<ak_now, ak_sid, ak_from_fmk>>

\* the loop of a worker ends: lines 1089-1103
ak_worker_ends ==
    \E w \in 1..MaxAckWorkers :
        /\ ak_workers[w].st = "run"
        /\ ak_workers' = [ak_workers EXCEPT ![w].st = "done"]
        /\ UNCHANGED <<ak_now, ak_last, ak_sid, ak_from_fmk, ak_first>>

(***************************************************************************)
(* The callback arguments of a listened (host, port): the calls of         *)
(* _listen_to_target by the driver (lines 835-904) and the accept loop     *)
(* _server_main (lines 906-924), statement by statement.  The arguments    *)
(* of the k-th call are the number k.  The interface does not hold its     *)
(* connection, so no peer is cached.                                       *)
(***************************************************************************)
VARIABLES
    ls_drv,       \* the driver: "idle", "in" (in a later call, before line 862),
                  \* "stored" (after the with block)
    ls_made,      \* history: the calls of _listen_to_target begun
    ls_returned,  \* history: the calls that have returned
    ls_share,     \* self._server_thread_share[(host, port)], 0 before the first call
    ls_acc,       \* the accept loop: "none", "loop", "accepted" (after line 910),
                  \* "call" (after line 923)
    ls_args,      \* the local args of _server_main
    ls_conn,      \* history: what was stored and begun when the connection was accepted
    ls_handled    \* history: the calls of func by the accept loop

varsL == <<ls_drv, ls_made, ls_returned, ls_share, ls_acc, ls_args, ls_conn,
           ls_handled>>

\* the listen calls of a run
MaxListens == 3
\* the connections accepted in a run
MaxConns == 2

NoConn == [stored |-> 0, made |-> 0]

InitL ==
    /\ ls_drv = "idle"
    /\ ls_made = 0
    /\ ls_returned = 0
    /\ ls_share = 0
    /\ ls_acc = "none"
    /\ ls_args = 0
    /\ ls_conn = NoConn
    /\ ls_handled = <<>>

\* the first call: bind, the arguments are stored and the accept loop is
\* started, lines 872-897; nothing can connect before listen(5)
ls_first_listen ==
    /\ ls_drv = "idle"
    /\ ls_made = 0
    /\ ls_made' = 1
    /\ ls_returned' = 1
    /\ ls_share' = 1
    /\ ls_acc' = "loop"
    /\ UNCHANGED <<ls_drv, ls_args, ls_conn, ls_handled>>

\* a later call begins: lines 835-849
ls_listen ==
    /\ ls_drv = "idle"
    /\ ls_made > 0
    /\ ls_made < MaxListens
    /\ ls_made' = ls_made + 1
    /\ ls_drv' = "in"
    /\ UNCHANGED <<ls_returned, ls_share, ls_acc, ls_args, ls_conn, ls_handled>>

\* the with block of lines 862-867: the arguments are replaced
ls_store ==
    /\ ls_drv = "in"
    /\ ls_share' = ls_made
    /\ ls_drv' = "stored"
    /\ UNCHANGED <<ls_made, ls_returned, ls_acc, ls_args, ls_conn, ls_handled>>

\* return True, line 870
ls_return ==
    /\ ls_drv = "stored"
    /\ ls_returned' = ls_made
    /\ ls_drv' = "idle"
    /\ UNCHANGED <<ls_made, ls_share, ls_acc, ls_args, ls_conn, ls_handled>>

\* serversocket.accept() returns a connection: line 910
ls_accept ==
    /\ ls_acc = "loop"
    /\ Len(ls_handled) < MaxConns
    /\ ls_acc' = "accepted"
    /\ ls_conn' = [stored |-> ls_share, made |-> ls_made]
    /\ UNCHANGED <<ls_drv, ls_made, ls_returned, ls_share, ls_args, ls_handled>>

\* the with block of lines 922-923: the arguments are read
ls_read ==
    /\ ls_acc = "accepted"
    /\ ls_args' = ls_share
    /\ ls_acc' = "call"
    /\ UNCHANGED <<ls_drv, ls_made, ls_returned, ls_share, ls_conn, ls_handled>>

\* func(clientsocket, address, args): line 924
ls_func ==
    /\ ls_acc = "call"
    /\ ls_handled' = Append(ls_handled, [args |-> ls_args, stored |-> ls_conn.stored,
                                         made |-> ls_conn.made,
                                         returned |-> ls_returned])
    /\ ls_acc' = "loop"
    /\ UNCHANGED <<ls_drv, ls_made, ls_returned, ls_share, ls_args, ls_conn>>

(***************************************************************************)
(* One feedback worker (_collect_feedback_from, lines 978-1126) on two     *)
(* handles, with the registries a handle can be in, the error events of    *)
(* epoll, the reads of b'', the exit of the worker and a stop() of the     *)
(* framework while it runs.  The reference id of a handle is the handle.   *)
(***************************************************************************)
VARIABLES
    u_pc,           \* "idle", "loop", "exit" (after the while), "done", "dead"
    u_from_fmk,     \* from_fmk of the worker
    u_fbk,          \* fbk_sockets: the handles the loop still waits for
    u_open,         \* handle -> it has not been closed
    u_hclient,      \* keys of self._hclient_sock2hp
    u_last_client,  \* keys of self._last_client_sock2hp
    u_aux,          \* self._additional_fbk_sockets
    u_stopped,      \* stop() was called: the registries are None
    u_lock_lost,    \* _server_thread_lock is held by a thread that has ended
    u_errors,       \* socket_errors
    u_entries,      \* history: the calls of _feedback_collect, [ref, err]
    u_complete,     \* history: the calls of _feedback_complete
    u_errev,        \* history: the handles epoll reported an error event for
    u_wclosed       \* history: the closes by the worker, [s, registered]

varsU == <<u_pc, u_from_fmk, u_fbk, u_open, u_hclient, u_last_client, u_aux,
           u_stopped, u_lock_lost, u_errors, u_entries, u_complete, u_errev,
           u_wclosed>>

\* the handles the worker is given
WorkerHandles == {1, 2}
\* select.EPOLLHUP, an event other than select.EPOLLIN
EPOLLHUP == 16

\* no worker
InitU_Idle ==
    /\ u_pc = "idle"
    /\ u_from_fmk = FALSE
    /\ u_fbk = {}
    /\ u_open = [s \in WorkerHandles |-> FALSE]
    /\ u_hclient = {}
    /\ u_last_client = {}
    /\ u_aux = {}
    /\ u_stopped = FALSE
    /\ u_lock_lost = FALSE
    /\ u_errors = <<>>
    /\ u_entries = <<>>
    /\ u_complete = 0
    /\ u_errev = {}
    /\ u_wclosed = {}

\* a worker starts on open handles, each of them in one registry or in none:
\* lines 1017-1031
InitU_Any ==
    /\ u_pc = "loop"
    /\ u_from_fmk \in BOOLEAN
    /\ u_fbk = WorkerHandles
    /\ u_open = [s \in WorkerHandles |-> TRUE]
    /\ \E where \in [WorkerHandles -> {"none", "hclient", "last_client", "aux"}] :
          /\ u_hclient = {s \in WorkerHandles : where[s] = "hclient"}
          /\ u_last_client = {s \in WorkerHandles : where[s] = "last_client"}
          /\ u_aux = {s \in WorkerHandles : where[s] = "aux"}
    /\ u_stopped = FALSE
    /\ u_lock_lost = FALSE
    /\ u_errors = <<>>
    /\ u_entries = <<>>
    /\ u_complete = 0
    /\ u_errev = {}
    /\ u_wclosed = {}

WorkerRegs == [hclient |-> u_hclient, last_client |-> u_last_client, aux |-> u_aux,
               errors |-> u_errors]

\* s is in one of the three registries
InRegistry(s, reg) == s \in reg.hclient \cup reg.last_client \cup reg.aux

\* _check_and_handle_obsolete_socket(skt, error, error_list) with the
\* registries not None, lines 993-1015: every test is on `socket`, the
\* module, and not on skt
ObsoleteSocket(skt, error, reg) ==
    LET key == SocketModule
        noted == IF error # 0 THEN Append(reg.errors, <<key, error>>) ELSE reg.errors
    IN  IF key \in reg.last_client
        THEN [reg EXCEPT !.errors = noted, !.last_client = @ \ {key}]
        ELSE LET r1 == IF key \in reg.hclient
                       THEN [reg EXCEPT !.errors = noted, !.hclient = @ \ {key}]
                       ELSE reg
             IN  IF key \in r1.aux
                 THEN [r1 EXCEPT !.errors = IF error # 0
                                            THEN Append(r1.errors, <<key, error>>)
                                            ELSE r1.errors,
                                 !.aux = @ \ {key}]
                 ELSE r1

SetWorkerRegs(reg) ==
    /\ u_hclient' = reg.hclient
    /\ u_last_client' = reg.last_client
    /\ u_aux' = reg.aux
    /\ u_errors' = reg.errors

\* lines 1089-1106 after a pass in which no handle left was readable with
\* its length met: the loop goes on while a handle is left and the time is
\* not over
LoopGoesOn(fbk_sockets, late) == fbk_sockets # {} /\ ~late

\* the handles the exit of the worker closes: lines 1114-1117
ExitCloses(stopped, reg) ==
    {s \in WorkerHandles : stopped \/ ~InRegistry(s, reg)}

\* a pass in which poll reports an event other than EPOLLIN for the open
\* handle skt: lines
\* 1035-1041.  After stop() line 994 raises with _server_thread_lock held
u_error_event ==
    \E skt \in u_fbk, late \in BOOLEAN :
        /\ u_pc = "loop"
        /\ u_open[skt]
        /\ u_errev' = u_errev \cup {skt}
        /\ IF u_stopped
           THEN /\ u_pc' = "dead"
                /\ u_lock_lost' = TRUE
                /\ UNCHANGED <<u_fbk, u_hclient, u_last_client, u_aux, u_errors>>
           ELSE /\ SetWorkerRegs(ObsoleteSocket(skt, EPOLLHUP, WorkerRegs))
                /\ u_fbk' = u_fbk \ {skt}
                /\ u_pc' = IF LoopGoesOn(u_fbk', late) THEN "loop" ELSE "exit"
                /\ UNCHANGED u_lock_lost
        /\ UNCHANGED <<u_from_fmk, u_open, u_stopped, u_entries, u_complete, u_wclosed>>

\* a pass in which recv on the open handle s gives b'': lines 1078-1084;
\* timed_out is
\* socket_timed_out
u_empty_read ==
    \E s \in u_fbk, timed_out \in BOOLEAN, late \in BOOLEAN :
        /\ u_pc = "loop"
        /\ u_open[s]
        /\ u_fbk' = u_fbk \ {s}
        /\ IF u_stopped
           THEN /\ u_pc' = "dead"
                /\ u_lock_lost' = TRUE
                /\ UNCHANGED <<u_open, u_hclient, u_last_client, u_aux, u_errors,
                               u_wclosed>>
           ELSE /\ SetWorkerRegs(ObsoleteSocket(s, 0, WorkerRegs))
                /\ u_open' = IF timed_out THEN u_open ELSE [u_open EXCEPT ![s] = FALSE]
                /\ u_wclosed' = IF timed_out THEN u_wclosed
                                ELSE u_wclosed \cup
                                     {[s |-> s,
                                       registered |->
                                           InRegistry(s, ObsoleteSocket(s, 0, WorkerRegs))]}
                /\ u_pc' = IF LoopGoesOn(u_fbk', late) THEN "loop" ELSE "exit"
                /\ UNCHANGED u_lock_lost
        /\ UNCHANGED <<u_from_fmk, u_stopped, u_entries, u_complete, u_errev>>

\* the loop ends on the lengths or on the timeout: lines 1089-1103
u_loop_ends ==
    /\ u_pc = "loop"
    /\ u_pc' = "exit"
    /\ UNCHANGED <<u_from_fmk, u_fbk, u_open, u_hclient, u_last_client, u_aux,
                   u_stopped, u_lock_lost, u_errors, u_entries, u_complete, u_errev,
                   u_wclosed>>

\* the worker leaves: one entry per handle of chunks and the close of lines
\* 1108-1117, one entry per socket error (1119-1122), _feedback_complete
\* (1123-1124)
u_exit ==
    /\ u_pc = "exit"
    /\ LET closes == ExitCloses(u_stopped, WorkerRegs)
       IN  /\ u_open' = [s \in WorkerHandles |-> u_open[s] /\ s \notin closes]
           /\ u_wclosed' = u_wclosed \cup
                  {[s |-> s, registered |-> ~u_stopped /\ InRegistry(s, WorkerRegs)] :
                       s \in closes}
    /\ u_entries' = u_entries
                    \o [k \in 1..Cardinality(WorkerHandles) |-> [ref |-> k, err |-> 0]]
                    \o [k \in 1..Len(u_errors) |->
                           [ref |-> u_errors[k][1], err |-> 0 - u_errors[k][2]]]
    /\ u_complete' = IF u_from_fmk THEN u_complete + 1 ELSE u_complete
    /\ u_pc' = "done"
    /\ UNCHANGED <<u_from_fmk, u_fbk, u_hclient, u_last_client, u_aux, u_stopped,
                   u_lock_lost, u_errors, u_errev>>

\* stop() by the framework: lines 658-680
u_stop ==
    /\ ~u_stopped
    /\ u_pc \in {"loop", "exit"}
    /\ u_stopped' = TRUE
    /\ u_open' = [s \in WorkerHandles |->
                     u_open[s] /\ s \notin u_hclient \cup u_last_client \cup u_aux]
    /\ u_hclient' = {}
    /\ u_last_client' = {}
    /\ u_aux' = {}
    /\ UNCHANGED <<u_pc, u_from_fmk, u_fbk, u_lock_lost, u_errors, u_entries,
                   u_complete, u_errev, u_wclosed>>

(***************************************************************************)
(* TargetFeedback.__iter__ (lines 268-273) next to add_fbk_from (lines     *)
(* 255-263), statement by statement.  copy.copy of the two dictionaries    *)
(* copies the keys and not the lists: what __iter__ yields for a           *)
(* reference id are the two lists of the collector themselves.  fbk_lock   *)
(* is held by add_fbk_from from line 257 to line 263 and by __iter__ for   *)
(* the two copies; the consumer reads the yielded lists outside of it.     *)
(***************************************************************************)
VARIABLES
    sh_keys,    \* the keys of _feedback_collector (and of the tstamped one)
    sh_frags,   \* ref -> _feedback_collector[ref]
    sh_ts,      \* ref -> _feedback_collector_tstamped[ref]
    sh_lock,    \* fbk_lock: 0 when free, else the thread that holds it
    sh_pc,      \* worker thread -> "idle", "locked" (line 258), "appended" (262 done)
    sh_arg,     \* worker thread -> the (ref, fbk, now) of its call
    sh_clock,   \* the count of add_fbk_from calls made
    sh_todo,    \* the keys of the copy __iter__ has still to yield
    sh_held,    \* the reference ids whose lists the consumer was handed
    sh_seen     \* history: the lengths the consumer read last

varsG == <<sh_keys, sh_frags, sh_ts, sh_lock, sh_pc, sh_arg, sh_clock, sh_todo,
           sh_held, sh_seen>>

\* the add_fbk_from calls of a run
MaxSharedAdds == 3
NoSeen == [done |-> FALSE, ref |-> "r1", frags |-> 0, ts |-> 0]

InitG ==
    /\ sh_keys = {}
    /\ sh_frags = [r \in Refs |-> <<>>]
    /\ sh_ts = [r \in Refs |-> <<>>]
    /\ sh_lock = 0
    /\ sh_pc = [t \in FbkThreads |-> "idle"]
    /\ sh_arg = [t \in FbkThreads |-> NoAdd]
    /\ sh_clock = 0
    /\ sh_todo = {}
    /\ sh_held = {}
    /\ sh_seen = NoSeen

\* add_fbk_from up to the test of line 261: the time is read, the lock is
\* taken and the two lists of a new ref are created (lines 256-260)
sh_add_enter ==
    \E t \in FbkThreads, ref \in Refs, fbk \in Frags :
        /\ sh_pc[t] = "idle"
        /\ sh_lock = 0
        /\ sh_clock < MaxSharedAdds
        /\ sh_clock' = sh_clock + 1
        /\ sh_lock' = t
        /\ sh_keys' = sh_keys \cup {ref}
        /\ sh_pc' = [sh_pc EXCEPT ![t] = "locked"]
        /\ sh_arg' = [sh_arg EXCEPT ![t] = [busy |-> TRUE, ref |-> ref, fbk |-> fbk,
                                            now |-> sh_clock + 1]]
        /\ UNCHANGED <<sh_frags, sh_ts, sh_todo, sh_held, sh_seen>>

\* lines 261-262: the fragment is appended, or the call ends
sh_add_fragment ==
    \E t \in FbkThreads :
        /\ sh_pc[t] = "locked"
        /\ LET a == sh_arg[t]
           IN  IF ~InList(Strip(a.fbk), sh_frags[a.ref])
               THEN /\ sh_frags' = [sh_frags EXCEPT ![a.ref] = Append(@, a.fbk)]
                    /\ sh_pc' = [sh_pc EXCEPT ![t] = "appended"]
                    /\ UNCHANGED <<sh_lock, sh_arg>>
               ELSE /\ sh_pc' = [sh_pc EXCEPT ![t] = "idle"]
                    /\ sh_arg' = [sh_arg EXCEPT ![t] = NoAdd]
                    /\ sh_lock' = 0
                    /\ UNCHANGED sh_frags
        /\ UNCHANGED <<sh_keys, sh_ts, sh_clock, sh_todo, sh_held, sh_seen>>

\* line 263: the time stamp is appended and the lock released
sh_add_timestamp ==
    \E t \in FbkThreads :
        /\ sh_pc[t] = "appended"
        /\ sh_ts' = [sh_ts EXCEPT ![sh_arg[t].ref] = Append(@, sh_arg[t].now)]
        /\ sh_pc' = [sh_pc EXCEPT ![t] = "idle"]
        /\ sh_arg' = [sh_arg EXCEPT ![t] = NoAdd]
        /\ sh_lock' = 0
        /\ UNCHANGED <<sh_keys, sh_frags, sh_clock, sh_todo, sh_held, sh_seen>>

\* the consumer starts `for ref, fbk_list, ts_list in feedback`: the two
\* copies under the lock, lines 268-270
sh_iter ==
    /\ sh_lock = 0
    /\ sh_todo = {}
    /\ sh_keys # {}
    /\ sh_todo' = sh_keys
    /\ sh_held' = {}
    /\ UNCHANGED <<sh_keys, sh_frags, sh_ts, sh_lock, sh_pc, sh_arg, sh_clock, sh_seen>>

\* the generator yields the two lists of a key of its copy: lines 271-272
sh_yield ==
    \E ref \in sh_todo :
        /\ sh_todo' = sh_todo \ {ref}
        /\ sh_held' = sh_held \cup {ref}
        /\ UNCHANGED <<sh_keys, sh_frags, sh_ts, sh_lock, sh_pc, sh_arg, sh_clock,
                       sh_seen>>

\* the consumer reads the two lists it was handed for ref
sh_read ==
    \E ref \in sh_held :
        /\ sh_seen' = [done |-> TRUE, ref |-> ref, frags |-> Len(sh_frags[ref]),
                       ts |-> Len(sh_ts[ref])]
        /\ UNCHANGED <<sh_keys, sh_frags, sh_ts, sh_lock, sh_pc, sh_arg, sh_clock,
                       sh_todo, sh_held>>

(***************************************************************************)
(* The specifications.                                                     *)
(***************************************************************************)
NextR ==
    \/ register_new_interface /\ UNCHANGED <<varsT, varsC, varsM, varsS, varsW, varsX, varsF, varsY, varsD, varsI, varsK, varsL, varsU, varsG>>
    \/ resolve /\ UNCHANGED <<varsT, varsC, varsM, varsS, varsW, varsX, varsF, varsY, varsD, varsI, varsK, varsL, varsU, varsG>>

NextT ==
    \/ set_timeout /\ UNCHANGED <<varsR, varsC, varsM, varsS, varsW, varsX, varsF, varsY, varsD, varsI, varsK, varsL, varsU, varsG>>
    \/ set_feedback_timeout /\ UNCHANGED <<varsR, varsC, varsM, varsS, varsW, varsX, varsF, varsY, varsD, varsI, varsK, varsL, varsU, varsG>>

NextC ==
    \/ PassIdle /\ UNCHANGED <<varsT, varsR, varsM, varsS, varsW, varsX, varsF, varsY, varsD, varsI, varsK, varsL, varsU, varsG>>
    \/ PassError /\ UNCHANGED <<varsT, varsR, varsM, varsS, varsW, varsX, varsF, varsY, varsD, varsI, varsK, varsL, varsU, varsG>>
    \/ PassRead /\ UNCHANGED <<varsT, varsR, varsM, varsS, varsW, varsX, varsF, varsY, varsD, varsI, varsK, varsL, varsU, varsG>>
    \/ PassEmpty /\ UNCHANGED <<varsT, varsR, varsM, varsS, varsW, varsX, varsF, varsY, varsD, varsI, varsK, varsL, varsU, varsG>>

vars == <<varsT, varsR, varsC, varsM, varsS, varsW, varsX, varsF, varsY, varsD, varsI, varsK, varsL, varsU, varsG>>

InitTimeout == InitT /\ InitR_Ctor /\ InitC_Idle /\ InitM /\ InitS /\ InitW /\ InitX_Idle /\ InitF /\ InitY /\ InitD /\ InitI /\ InitK /\ InitL /\ InitU_Idle /\ InitG

SpecTimeout == InitTimeout /\ [][NextT]_vars

InitResolve == InitT /\ InitR_Any /\ InitC_Idle /\ InitM /\ InitS /\ InitW /\ InitX_Idle /\ InitF /\ InitY /\ InitD /\ InitI /\ InitK /\ InitL /\ InitU_Idle /\ InitG

SpecResolve == InitResolve /\ [][NextR]_vars

InitCollect == InitT /\ InitR_Ctor /\ InitC_Any /\ InitM /\ InitS /\ InitW /\ InitX_Idle /\ InitF /\ InitY /\ InitD /\ InitI /\ InitK /\ InitL /\ InitU_Idle /\ InitG

SpecCollect == InitCollect /\ [][NextC]_vars

\* NetworkTarget(server_mode=sm, hold_connection=hold), before start()
InitMain ==
    /\ InitT
    /\ \E sm \in BOOLEAN, hold \in BOOLEAN :
          InitRWith(UNKNOWN_SEMANTIC, StreamType, sm, hold)
    /\ InitC_Idle
    /\ InitM
    /\ InitS
    /\ InitW
    /\ InitX_Idle
    /\ InitF
    /\ InitY
    /\ InitD
    /\ InitI
    /\ InitK
    /\ InitL
    /\ InitU_Idle
    /\ InitG

Next ==
    \/ start /\ UNCHANGED <<varsT, varsR, varsC, varsS, varsW, varsX, varsF, varsY, varsD, varsI, varsK, varsL, varsU, varsG>>
    \/ stop /\ UNCHANGED <<varsT, varsR, varsC, varsS, varsW, varsX, varsF, varsY, varsD, varsI, varsK, varsL, varsU, varsG>>
    \/ send_data_nothing /\ UNCHANGED <<varsT, varsR, varsC, varsS, varsW, varsX, varsF, varsY, varsD, varsI, varsK, varsL, varsU, varsG>>
    \/ send_data_client /\ UNCHANGED <<varsT, varsR, varsC, varsS, varsW, varsX, varsF, varsY, varsD, varsI, varsK, varsL, varsU, varsG>>
    \/ send_data_server /\ UNCHANGED <<varsT, varsR, varsC, varsS, varsW, varsX, varsF, varsY, varsD, varsI, varsK, varsL, varsU, varsG>>
    \/ send_data_cached_peer /\ UNCHANGED <<varsT, varsR, varsC, varsS, varsW, varsX, varsF, varsY, varsD, varsI, varsK, varsL, varsU, varsG>>
    \/ send_data_spawn /\ UNCHANGED <<varsT, varsR, varsC, varsS, varsW, varsX, varsF, varsY, varsD, varsI, varsK, varsL, varsU, varsG>>
    \/ send_data_return /\ UNCHANGED <<varsT, varsR, varsC, varsS, varsW, varsX, varsF, varsY, varsD, varsI, varsK, varsL, varsU, varsG>>
    \/ accept_connection /\ UNCHANGED <<varsT, varsR, varsC, varsS, varsW, varsX, varsF, varsY, varsD, varsI, varsK, varsL, varsU, varsG>>
    \/ accept_spawn /\ UNCHANGED <<varsT, varsR, varsC, varsS, varsW, varsX, varsF, varsY, varsD, varsI, varsK, varsL, varsU, varsG>>
    \/ accept_exit /\ UNCHANGED <<varsT, varsR, varsC, varsS, varsW, varsX, varsF, varsY, varsD, varsI, varsK, varsL, varsU, varsG>>
    \/ worker_handle_lost /\ UNCHANGED <<varsT, varsR, varsC, varsS, varsW, varsX, varsF, varsY, varsD, varsI, varsK, varsL, varsU, varsG>>
    \/ worker_loop_ends /\ UNCHANGED <<varsT, varsR, varsC, varsS, varsW, varsX, varsF, varsY, varsD, varsI, varsK, varsL, varsU, varsG>>
    \/ worker_exit /\ UNCHANGED <<varsT, varsR, varsC, varsS, varsW, varsX, varsF, varsY, varsD, varsI, varsK, varsL, varsU, varsG>>

Spec == InitMain /\ [][Next]_vars

\* the steps of the threads that are running: a thread that can take its next
\* step takes it, and a worker leaves its loop once the timeout has passed
ThreadSteps ==
    \/ send_data_cached_peer
    \/ send_data_spawn
    \/ send_data_return
    \/ accept_spawn
    \/ accept_exit
    \/ worker_loop_ends
    \/ worker_exit

FairSpec == Spec /\ WF_vars(ThreadSteps /\ UNCHANGED <<varsT, varsR, varsC, varsS, varsW, varsX, varsF, varsY, varsD, varsI, varsK, varsL, varsU, varsG>>)

InitSend == InitT /\ InitR_Ctor /\ InitC_Idle /\ InitM /\ InitS /\ InitW /\ InitX_Idle /\ InitF /\ InitY /\ InitD /\ InitI /\ InitK /\ InitL /\ InitU_Idle /\ InitG

NextS ==
    \/ call_send_data /\ UNCHANGED <<varsT, varsR, varsC, varsM, varsW, varsX, varsF, varsY, varsD, varsI, varsK, varsL, varsU, varsG>>
    \/ call_send_multiple_data /\ UNCHANGED <<varsT, varsR, varsC, varsM, varsW, varsX, varsF, varsY, varsD, varsI, varsK, varsL, varsU, varsG>>
    \/ connect_step /\ UNCHANGED <<varsT, varsR, varsC, varsM, varsW, varsX, varsF, varsY, varsD, varsI, varsK, varsL, varsU, varsG>>
    \/ listen_step /\ UNCHANGED <<varsT, varsR, varsC, varsM, varsW, varsX, varsF, varsY, varsD, varsI, varsK, varsL, varsU, varsG>>
    \/ send_step /\ UNCHANGED <<varsT, varsR, varsC, varsM, varsW, varsX, varsF, varsY, varsD, varsI, varsK, varsL, varsU, varsG>>
    \/ wait_step /\ UNCHANGED <<varsT, varsR, varsC, varsM, varsW, varsX, varsF, varsY, varsD, varsI, varsK, varsL, varsU, varsG>>

SpecSend == InitSend /\ [][NextS]_vars

InitWrite == InitT /\ InitR_Ctor /\ InitC_Idle /\ InitM /\ InitS /\ InitW /\ InitX_Idle /\ InitF /\ InitY /\ InitD /\ InitI /\ InitK /\ InitL /\ InitU_Idle /\ InitG

NextW ==
    \/ write_begin /\ UNCHANGED <<varsT, varsR, varsC, varsM, varsS, varsX, varsF, varsY, varsD, varsI, varsK, varsL, varsU, varsG>>
    \/ write_sent /\ UNCHANGED <<varsT, varsR, varsC, varsM, varsS, varsX, varsF, varsY, varsD, varsI, varsK, varsL, varsU, varsG>>
    \/ write_error /\ UNCHANGED <<varsT, varsR, varsC, varsM, varsS, varsX, varsF, varsY, varsD, varsI, varsK, varsL, varsU, varsG>>
    \/ write_loop_ends /\ UNCHANGED <<varsT, varsR, varsC, varsM, varsS, varsX, varsF, varsY, varsD, varsI, varsK, varsL, varsU, varsG>>

SpecWrite == InitWrite /\ [][NextW]_vars

InitAux == InitT /\ InitR_Ctor /\ InitC_Idle /\ InitM /\ InitS /\ InitW /\ InitX /\ InitF /\ InitY /\ InitD /\ InitI /\ InitK /\ InitL /\ InitU_Idle /\ InitG

NextX ==
    \/ x_start /\ UNCHANGED <<varsT, varsR, varsC, varsM, varsS, varsW, varsF, varsY, varsD, varsI, varsK, varsL, varsU, varsG>>
    \/ x_send_data /\ UNCHANGED <<varsT, varsR, varsC, varsM, varsS, varsW, varsF, varsY, varsD, varsI, varsK, varsL, varsU, varsG>>
    \/ x_read /\ UNCHANGED <<varsT, varsR, varsC, varsM, varsS, varsW, varsF, varsY, varsD, varsI, varsK, varsL, varsU, varsG>>
    \/ x_worker_ends /\ UNCHANGED <<varsT, varsR, varsC, varsM, varsS, varsW, varsF, varsY, varsD, varsI, varsK, varsL, varsU, varsG>>

SpecAux == InitAux /\ [][NextX]_vars

InitFeedback == InitT /\ InitR_Ctor /\ InitC_Idle /\ InitM /\ InitS /\ InitW /\ InitX_Idle /\ InitF /\ InitY /\ InitD /\ InitI /\ InitK /\ InitL /\ InitU_Idle /\ InitG

NextF ==
    \/ add_fbk_from_call /\ UNCHANGED <<varsT, varsR, varsC, varsM, varsS, varsW, varsX, varsY, varsD, varsI, varsK, varsL, varsU, varsG>>
    \/ add_fbk_from /\ UNCHANGED <<varsT, varsR, varsC, varsM, varsS, varsW, varsX, varsY, varsD, varsI, varsK, varsL, varsU, varsG>>
    \/ iter_begins /\ UNCHANGED <<varsT, varsR, varsC, varsM, varsS, varsW, varsX, varsY, varsD, varsI, varsK, varsL, varsU, varsG>>
    \/ iter_and_cleanup_begins /\ UNCHANGED <<varsT, varsR, varsC, varsM, varsS, varsW, varsX, varsY, varsD, varsI, varsK, varsL, varsU, varsG>>
    \/ yield_next /\ UNCHANGED <<varsT, varsR, varsC, varsM, varsS, varsW, varsX, varsY, varsD, varsI, varsK, varsL, varsU, varsG>>
    \/ set_error_code /\ UNCHANGED <<varsT, varsR, varsC, varsM, varsS, varsW, varsX, varsY, varsD, varsI, varsK, varsL, varsU, varsG>>
    \/ cleanup /\ UNCHANGED <<varsT, varsR, varsC, varsM, varsS, varsW, varsX, varsY, varsD, varsI, varsK, varsL, varsU, varsG>>

SpecFeedback == InitFeedback /\ [][NextF]_vars

InitSync == InitT /\ InitR_Ctor /\ InitC_Idle /\ InitM /\ InitS /\ InitW /\ InitX_Idle /\ InitF /\ InitY /\ InitD /\ InitI /\ InitK /\ InitL /\ InitU_Idle /\ InitG

NextY ==
    \/ sync_call /\ UNCHANGED <<varsT, varsR, varsC, varsM, varsS, varsW, varsX, varsF, varsD, varsI, varsK, varsL, varsU, varsG>>
    \/ sync_acquire /\ UNCHANGED <<varsT, varsR, varsC, varsM, varsS, varsW, varsX, varsF, varsD, varsI, varsK, varsL, varsU, varsG>>
    \/ sync_send /\ UNCHANGED <<varsT, varsR, varsC, varsM, varsS, varsW, varsX, varsF, varsD, varsI, varsK, varsL, varsU, varsG>>
    \/ sync_worker_dies /\ UNCHANGED <<varsT, varsR, varsC, varsM, varsS, varsW, varsX, varsF, varsD, varsI, varsK, varsL, varsU, varsG>>
    \/ sync_worker_ends /\ UNCHANGED <<varsT, varsR, varsC, varsM, varsS, varsW, varsX, varsF, varsD, varsI, varsK, varsL, varsU, varsG>>
    \/ sync_stop /\ UNCHANGED <<varsT, varsR, varsC, varsM, varsS, varsW, varsX, varsF, varsD, varsI, varsK, varsL, varsU, varsG>>
    \/ sync_start /\ UNCHANGED <<varsT, varsR, varsC, varsM, varsS, varsW, varsX, varsF, varsD, varsI, varsK, varsL, varsU, varsG>>

SpecSync == InitSync /\ [][NextY]_vars

InitDispatch == InitT /\ InitR_Ctor /\ InitC_Idle /\ InitM /\ InitS /\ InitW /\ InitX_Idle /\ InitF /\ InitY /\ InitD /\ InitI /\ InitK /\ InitL /\ InitU_Idle /\ InitG

NextD ==
    \/ d_call /\ UNCHANGED <<varsT, varsR, varsC, varsM, varsS, varsW, varsX, varsF, varsY, varsI, varsK, varsL, varsU, varsG>>
    \/ d_connect /\ UNCHANGED <<varsT, varsR, varsC, varsM, varsS, varsW, varsX, varsF, varsY, varsI, varsK, varsL, varsU, varsG>>
    \/ d_listen /\ UNCHANGED <<varsT, varsR, varsC, varsM, varsS, varsW, varsX, varsF, varsY, varsI, varsK, varsL, varsU, varsG>>
    \/ d_send /\ UNCHANGED <<varsT, varsR, varsC, varsM, varsS, varsW, varsX, varsF, varsY, varsI, varsK, varsL, varsU, varsG>>
    \/ d_accept /\ UNCHANGED <<varsT, varsR, varsC, varsM, varsS, varsW, varsX, varsF, varsY, varsI, varsK, varsL, varsU, varsG>>
    \/ d_wait /\ UNCHANGED <<varsT, varsR, varsC, varsM, varsS, varsW, varsX, varsF, varsY, varsI, varsK, varsL, varsU, varsG>>

SpecDispatch == InitDispatch /\ [][NextD]_vars

InitDyn == InitT /\ InitR_Ctor /\ InitC_Idle /\ InitM /\ InitS /\ InitW /\ InitX_Idle /\ InitF /\ InitY /\ InitD /\ InitI /\ InitK /\ InitL /\ InitU_Idle /\ InitG

NextI ==
    \/ dy_connect_to /\ UNCHANGED <<varsT, varsR, varsC, varsM, varsS, varsW, varsX, varsF, varsY, varsD, varsK, varsL, varsU, varsG>>
    \/ dy_listen_to /\ UNCHANGED <<varsT, varsR, varsC, varsM, varsS, varsW, varsX, varsF, varsY, varsD, varsK, varsL, varsU, varsG>>
    \/ dy_inbound /\ UNCHANGED <<varsT, varsR, varsC, varsM, varsS, varsW, varsX, varsF, varsY, varsD, varsK, varsL, varsU, varsG>>
    \/ dy_datagram /\ UNCHANGED <<varsT, varsR, varsC, varsM, varsS, varsW, varsX, varsF, varsY, varsD, varsK, varsL, varsU, varsG>>
    \/ dy_raw_ends /\ UNCHANGED <<varsT, varsR, varsC, varsM, varsS, varsW, varsX, varsF, varsY, varsD, varsK, varsL, varsU, varsG>>
    \/ dy_remove /\ UNCHANGED <<varsT, varsR, varsC, varsM, varsS, varsW, varsX, varsF, varsY, varsD, varsK, varsL, varsU, varsG>>
    \/ dy_remove_all /\ UNCHANGED <<varsT, varsR, varsC, varsM, varsS, varsW, varsX, varsF, varsY, varsD, varsK, varsL, varsU, varsG>>

SpecDyn == InitDyn /\ [][NextI]_vars

InitAck == InitT /\ InitR_Ctor /\ InitC_Idle /\ InitM /\ InitS /\ InitW /\ InitX_Idle /\ InitF /\ InitY /\ InitD /\ InitI /\ InitK /\ InitL /\ InitU_Idle /\ InitG

NextK ==
    \/ ak_send /\ UNCHANGED <<varsT, varsR, varsC, varsM, varsS, varsW, varsX, varsF, varsY, varsD, varsI, varsL, varsU, varsG>>
    \/ ak_accept /\ UNCHANGED <<varsT, varsR, varsC, varsM, varsS, varsW, varsX, varsF, varsY, varsD, varsI, varsL, varsU, varsG>>
    \/ ak_tick /\ UNCHANGED <<varsT, varsR, varsC, varsM, varsS, varsW, varsX, varsF, varsY, varsD, varsI, varsL, varsU, varsG>>
    \/ ak_ready /\ UNCHANGED <<varsT, varsR, varsC, varsM, varsS, varsW, varsX, varsF, varsY, varsD, varsI, varsL, varsU, varsG>>
    \/ ak_worker_ends /\ UNCHANGED <<varsT, varsR, varsC, varsM, varsS, varsW, varsX, varsF, varsY, varsD, varsI, varsL, varsU, varsG>>

SpecAck == InitAck /\ [][NextK]_vars

InitListen == InitT /\ InitR_Ctor /\ InitC_Idle /\ InitM /\ InitS /\ InitW /\ InitX_Idle /\ InitF /\ InitY /\ InitD /\ InitI /\ InitK /\ InitL /\ InitU_Idle /\ InitG

NextL ==
    \/ ls_first_listen /\ UNCHANGED <<varsT, varsR, varsC, varsM, varsS, varsW, varsX, varsF, varsY, varsD, varsI, varsK, varsU, varsG>>
    \/ ls_listen /\ UNCHANGED <<varsT, varsR, varsC, varsM, varsS, varsW, varsX, varsF, varsY, varsD, varsI, varsK, varsU, varsG>>
    \/ ls_store /\ UNCHANGED <<varsT, varsR, varsC, varsM, varsS, varsW, varsX, varsF, varsY, varsD, varsI, varsK, varsU, varsG>>
    \/ ls_return /\ UNCHANGED <<varsT, varsR, varsC, varsM, varsS, varsW, varsX, varsF, varsY, varsD, varsI, varsK, varsU, varsG>>
    \/ ls_accept /\ UNCHANGED <<varsT, varsR, varsC, varsM, varsS, varsW, varsX, varsF, varsY, varsD, varsI, varsK, varsU, varsG>>
    \/ ls_read /\ UNCHANGED <<varsT, varsR, varsC, varsM, varsS, varsW, varsX, varsF, varsY, varsD, varsI, varsK, varsU, varsG>>
    \/ ls_func /\ UNCHANGED <<varsT, varsR, varsC, varsM, varsS, varsW, varsX, varsF, varsY, varsD, varsI, varsK, varsU, varsG>>

SpecListen == InitListen /\ [][NextL]_vars

InitWorker == InitT /\ InitR_Ctor /\ InitC_Idle /\ InitM /\ InitS /\ InitW /\ InitX_Idle /\ InitF /\ InitY /\ InitD /\ InitI /\ InitK /\ InitL /\ InitU_Any /\ InitG

NextU ==
    \/ u_error_event /\ UNCHANGED <<varsT, varsR, varsC, varsM, varsS, varsW, varsX, varsF, varsY, varsD, varsI, varsK, varsL, varsG>>
    \/ u_empty_read /\ UNCHANGED <<varsT, varsR, varsC, varsM, varsS, varsW, varsX, varsF, varsY, varsD, varsI, varsK, varsL, varsG>>
    \/ u_loop_ends /\ UNCHANGED <<varsT, varsR, varsC, varsM, varsS, varsW, varsX, varsF, varsY, varsD, varsI, varsK, varsL, varsG>>
    \/ u_exit /\ UNCHANGED <<varsT, varsR, varsC, varsM, varsS, varsW, varsX, varsF, varsY, varsD, varsI, varsK, varsL, varsG>>
    \/ u_stop /\ UNCHANGED <<varsT, varsR, varsC, varsM, varsS, varsW, varsX, varsF, varsY, varsD, varsI, varsK, varsL, varsG>>

SpecWorker == InitWorker /\ [][NextU]_vars

InitShared == InitT /\ InitR_Ctor /\ InitC_Idle /\ InitM /\ InitS /\ InitW /\ InitX_Idle /\ InitF /\ InitY /\ InitD /\ InitI /\ InitK /\ InitL /\ InitU_Idle /\ InitG

NextG ==
    \/ sh_add_enter /\ UNCHANGED <<varsT, varsR, varsC, varsM, varsS, varsW, varsX, varsF, varsY, varsD, varsI, varsK, varsL, varsU>>
    \/ sh_add_fragment /\ UNCHANGED <<varsT, varsR, varsC, varsM, varsS, varsW, varsX, varsF, varsY, varsD, varsI, varsK, varsL, varsU>>
    \/ sh_add_timestamp /\ UNCHANGED <<varsT, varsR, varsC, varsM, varsS, varsW, varsX, varsF, varsY, varsD, varsI, varsK, varsL, varsU>>
    \/ sh_iter /\ UNCHANGED <<varsT, varsR, varsC, varsM, varsS, varsW, varsX, varsF, varsY, varsD, varsI, varsK, varsL, varsU>>
    \/ sh_yield /\ UNCHANGED <<varsT, varsR, varsC, varsM, varsS, varsW, varsX, varsF, varsY, varsD, varsI, varsK, varsL, varsU>>
    \/ sh_read /\ UNCHANGED <<varsT, varsR, varsC, varsM, varsS, varsW, varsX, varsF, varsY, varsD, varsI, varsK, varsL, varsU>>

SpecShared == InitShared /\ [][NextG]_vars

(***************************************************************************)
(* What the accepted registrations say, read from the history reg_log      *)
(* alone.                                                                  *)
(***************************************************************************)
RegIdx(T) == {i \in 1..Len(reg_log) : reg_log[i].tag = T}
RegisteredTags == {reg_log[i].tag : i \in 1..Len(reg_log)}
MaxOf(S) == CHOOSE x \in S : \A y \in S : y <= x
MinOf(S) == CHOOSE x \in S : \A y \in S : x <= y
\* the endpoint and transport of the latest registration of T
RegisteredFor(T) ==
    [hostport |-> reg_log[MaxOf(RegIdx(T))].hostport,
     socket_type |-> reg_log[MaxOf(RegIdx(T))].socket_type]
\* the endpoint of the reserved tag: the constructor's, or its registration
UnclassifiedEndpoint ==
    IF UNKNOWN_SEMANTIC \in RegisteredTags THEN RegisteredFor(UNKNOWN_SEMANTIC)
    ELSE [hostport |-> CtorEndpoint, socket_type |-> StreamType]
ResolvedTo == [hostport |-> last_resolve.info.hostport,
               socket_type |-> last_resolve.info.socket_type]
Matches(data, T) == ~data.is_none /\ data.has_node /\ data.has_sem /\ T \in data.sem
MatchesNone(data) == \A T \in RegisteredTags : ~Matches(data, T)

(***************************************************************************)
(* C7 as stated: for every registered tag T, a payload whose semantics     *)
(* match T resolves to the endpoint registered for T; a payload matching   *)
(* no registered tag resolves to the endpoint of the reserved tag.         *)
(***************************************************************************)
C7_EveryMatchingTagWins ==
    last_resolve.done =>
        /\ \A T \in RegisteredTags :
              Matches(last_resolve.data, T) => ResolvedTo = RegisteredFor(T)
        /\ MatchesNone(last_resolve.data) => ResolvedTo = UnclassifiedEndpoint

(***************************************************************************)
(* C7 amended: a payload resolves to the endpoint registered for T when T  *)
(* is, among the registered tags its semantics match, the one registered   *)
(* first; a payload matching no registered tag (null, no node, no          *)
(* semantics, other tags) resolves to the endpoint of the reserved tag.    *)
(***************************************************************************)
C7_FirstRegisteredMatchWins ==
    last_resolve.done =>
        /\ \A T \in RegisteredTags :
              (/\ Matches(last_resolve.data, T)
               /\ \A U \in RegisteredTags :
                     Matches(last_resolve.data, U) =>
                         MinOf(RegIdx(T)) <= MinOf(RegIdx(U)))
              => ResolvedTo = RegisteredFor(T)
        /\ MatchesNone(last_resolve.data) => ResolvedTo = UnclassifiedEndpoint

\* a payload matching two tags registered with different endpoints was resolved
C7_Witness ==
    /\ last_resolve.done
    /\ \E T, U \in RegisteredTags :
          /\ T # U
          /\ Matches(last_resolve.data, T) /\ Matches(last_resolve.data, U)
          /\ RegisteredFor(T) # RegisteredFor(U)
          /\ ResolvedTo = RegisteredFor(T)

RECURSIVE JoinLen(_)
\* the number of bytes of the chunks of a list
JoinLen(chks) == IF chks = <<>> THEN 0 ELSE Len(Head(chks)) + JoinLen(Tail(chks))

(***************************************************************************)
(* C10 as stated: the blob of a handle is the in-order concatenation of    *)
(* the chunks read on it (after the pre-feedback datagram, when there is   *)
(* one), nothing inserted between chunks and nothing dropped.              *)
(***************************************************************************)
C10_BlobIsConcatenation ==
    c_pc = "done" => c_blob = c_pre \o c_recv

\* the place of chunk i in the blob when one byte separates the chunks
ChunkOffset(i) == JoinLen(SubSeq(c_chunks, 1, i - 1)) + (i - 1)

(***************************************************************************)
(* C10 amended: the chunks read on a handle hold the bytes received in     *)
(* order, none dropped, and the blob holds every chunk in order with one   *)
(* newline byte between two consecutive chunks and nothing else.           *)
(***************************************************************************)
C10_BlobIsNewlineJoinedChunks ==
    /\ JoinEmpty(c_chunks) = c_pre \o c_recv
    /\ c_pc = "done" =>
          /\ Len(c_blob) = JoinLen(c_chunks)
                           + (IF c_chunks = <<>> THEN 0 ELSE Len(c_chunks) - 1)
          /\ \A i \in 1..Len(c_chunks) :
                /\ SubSeq(c_blob, ChunkOffset(i) + 1, ChunkOffset(i) + Len(c_chunks[i]))
                       = c_chunks[i]
                /\ i < Len(c_chunks) =>
                       c_blob[ChunkOffset(i) + Len(c_chunks[i]) + 1] = NewlineByte

\* data longer than one chunk was read in several reads, none of them a newline
C10_Witness ==
    /\ c_pc = "done"
    /\ Len(c_recv) > ChunkSz
    /\ Len(c_chunks) >= 2
    /\ \A i \in 1..Len(c_recv) : c_recv[i] # NewlineByte
    /\ c_in = <<>>

(***************************************************************************)
(* C8: in every reachable state the sending delay is strictly less than    *)
(* the feedback timeout.                                                   *)
(***************************************************************************)
C8_DelayBelowTimeout == sending_delay < p_feedback_timeout

(***************************************************************************)
(* C9: set_timeout(fbk_timeout, sending_delay) with sending_delay >=       *)
(* fbk_timeout is rejected, and the rejection leaves the stored delay and  *)
(* the stored feedback timeout (both attributes) as they were.             *)
(***************************************************************************)
C9_RejectedSetTimeoutChangesNothing ==
    (last_call.op = "set_timeout" /\ last_call.d >= last_call.f) =>
        /\ last_call.raised
        /\ sending_delay = last_call.pre.delay
        /\ p_feedback_timeout = last_call.pre.ptimeout
        /\ feedback_timeout = last_call.pre.timeout

\* a set_timeout with delay = timeout was rejected after an accepted
\* configuration other than the constructor's
C9_Witness ==
    /\ last_call.op = "set_timeout"
    /\ last_call.d = last_call.f
    /\ last_call.raised
    /\ sending_delay # CtorSendingDelay
    /\ sending_delay = last_call.pre.delay

(***************************************************************************)
(* Claims about readiness, the completion counters and the handles         *)
(* (Spec and FairSpec).                                                    *)
(***************************************************************************)
\* no thread is inside send_data or _start_fbk_collector
NoSendInProgress == drv.pc = "idle" /\ PendingSpawns = 0

\* C1: between two framework-initiated sends, is_target_ready_for_new_data()
\* is True iff every worker spawned for the latest framework-initiated
\* operation has completed (stated for an operation that has a worker;
\* _sending_id > 0: the operation began after the last start())
C1_ReadyIffWorkersOfLatestOperationDone ==
    (phase = "started" /\ sending_id > 0 /\ NoSendInProgress /\ g_spawned[g_op] >= 1)
        => (IsTargetReadyForNewData <=> g_done[g_op] = g_spawned[g_op])

\* the latest call was framework-initiated and has returned without raising
\* (and the caller is free to make further calls)
FmkCallReturned ==
    /\ phase = "started"
    /\ g_calls < MaxCalls
    /\ drv.pc = "idle"
    /\ drv.call = g_calls
    /\ drv.from_fmk
    /\ drv.result = "ok"

\* the target is ready, or it was stopped, or a later call has not returned
ReadyOrCallVoid ==
    \/ IsTargetReadyForNewData
    \/ phase # "started"
    \/ drv.result \in {"raised", "none"}

\* C2: after a framework-initiated call that returns without raising,
\* is_target_ready_for_new_data() eventually becomes True, whatever the
\* outcome of the send
C2_EventuallyReady == FmkCallReturned ~> ReadyOrCallVoid

\* C3: between start() and stop(), feedback_complete_cpt never exceeds
\* feedback_thread_qty
C3_CompletionsWithinSpawned ==
    phase = "started" => feedback_complete_cpt <= feedback_thread_qty

\* the sends i-1 and i were made by the driver after the same start()
Consecutive(i) == g_sends[i].epoch = g_sends[i - 1].epoch

C6_RegisteredHandlesAreOpen ==
    phase = "started" =>
        /\ \A s \in hclient_sock2hp \cup last_client_sock2hp : sock[s] = "open"
        /\ hclient_hp2sock # NoSock => sock[hclient_hp2sock] = "open"
        /\ last_client_hp2sock # NoSock => sock[last_client_hp2sock] = "open"

(***************************************************************************)
(* Claims about the error paths of a send and about stop() (Spec).         *)
(***************************************************************************)
\* the latest call was a server-mode send_data and it is over
ServerCallOver ==
    /\ drv.pc = "idle"
    /\ drv.call = g_calls
    /\ g_calls > 0
    /\ GetNetInfoFrom(drv.data).server_mode
    /\ ~(drv.data.is_none /\ (~Hold \/ feedback_timeout = 0))

C14_WriteFailureReachesDriver ==
    \A e \in 1..MaxStarts :
        (acc[e].pc = "dead" /\ acc[e].in_call /\ drv.pc = "idle"
         /\ drv.call = acc[e].call)
            => drv.result = "raised"

\* every worker that was started has ended
WorkersTerminated ==
    \A w \in 1..MaxWorkers : workers[w].st \in {"free", "done", "dead"}

\* C16: after stop(), once every feedback worker has terminated (and no
\* accept-loop thread is inside a send), no handle is open (stated for the
\* handles a worker collected on)
C16_NoOpenHandleAfterStop ==
    (phase = "stopped" /\ WorkersTerminated /\ PendingSpawns = 0)
        => \A w \in 1..MaxWorkers : \A h \in workers[w].all : sock[h] # "open"

(***************************************************************************)
(* Claims about a send whose destinations are unavailable (SpecSend).      *)
(***************************************************************************)
\* C11: a client-mode send_data whose handle cannot be obtained (connect
\* or bind failure) does not raise: it returns with a negative error code
\* and an error entry, starts no worker and writes nothing
C11_NoHandleIsRecordedNotRaised ==
    (s_op = "send_data" /\ s_pc = "done" /\ s_failed # {})
        => /\ s_result = "returned"
           /\ s_err < 0
           /\ INTERNALS_ID \in s_refs
           /\ ~s_spawned
           /\ s_written = {}

\* C12: a send_multiple_data that obtains no client handle (every connection
\* fails or every destination is in server mode) returns normally, the
\* failures recorded with a negative error code
C12_NoClientHandleReturnsNormally ==
    (s_op = "send_multiple_data" /\ s_pc = "done" /\ s_list # <<>>
     /\ s_sockets = <<>>)
        => /\ s_result = "returned"
           /\ s_failed # {} => (s_err < 0 /\ INTERNALS_ID \in s_refs)

(***************************************************************************)
(* Claim about the retries of a write (SpecWrite).                         *)
(***************************************************************************)
\* C15: a would-block write error is retried at most SendRetryLimit times,
\* and when the retries are exhausted with the payload not fully written
\* the send raises TargetStuck and does not go on to feedback collection
C15_ExhaustedRetriesRaise ==
    /\ w_send_retry <= SendRetryLimit
    /\ (w_send_retry = SendRetryLimit /\ w_totalsent < w_len
        /\ w_pc \notin {"idle", "loop"} /\ w_exit # "emsgsize")
           => w_pc = "raised"

(***************************************************************************)
(* Claim about the reference ids of auxiliary feedback (SpecAux).          *)
(***************************************************************************)
\* C17: data read from an auxiliary feedback handle is stored under the
\* auxiliary source's reference id only, and data read from the main handle
\* is never stored under an auxiliary id, also when the auxiliary source
\* shares its (host, port) with the main interface
C17_AuxiliaryDataUnderItsOwnId ==
    \A p \in x_store :
        IF p[2] \in x_aux_handles THEN p[1] = AuxId ELSE p[1] # AuxId

(***************************************************************************)
(* Claims about the feedback store (SpecFeedback).                         *)
(***************************************************************************)
\* the fragments of ref in a sequence of entries, in order
RECURSIVE FragsIn(_, _)
FragsIn(entries, ref) ==
    IF entries = <<>> THEN <<>>
    ELSE (IF Head(entries).ref = ref THEN Head(entries).frags ELSE <<>>)
         \o FragsIn(Tail(entries), ref)

\* the last locked step was an add_fbk_from, and it appended its fragment
LastAddAppended ==
    /\ FragsOf(f_last.post, f_last.ref) = Append(FragsOf(f_last.pre, f_last.ref), f_last.fbk)
    /\ Len(FragsIn(f_last.post, f_last.ref)) = Len(FragsIn(f_last.pre, f_last.ref)) + 1

\* C18: add_fbk_from(ref, fbk) appends the fragment to ref's sequence unless
\* it is identical to the immediately preceding fragment of that ref: a
\* repeat of an earlier, non-adjacent fragment is appended, and two identical
\* consecutive fragments are stored once, with or without surrounding blanks
C18_OnlyAdjacentRepeatIsDropped ==
    f_last.op = "add" =>
        LET before == FragsOf(f_last.pre, f_last.ref)
        IN  IF before # <<>> /\ before[Len(before)] = f_last.fbk
            THEN f_last.post = f_last.pre
            ELSE LastAddAppended

\* C19: a snapshot iteration leaves the entries as they were; a consuming
\* iteration yields every entry present and leaves the collector empty, so
\* that an iteration right after it yields nothing and has_fbk_collector()
\* is False
C19_SnapshotKeepsDrainEmpties ==
    /\ f_last.op = "iter" => f_last.post = f_last.pre
    /\ f_last.op = "drain" =>
          /\ f_last.out = f_last.pre
          /\ f_last.post = <<>>
          /\ Iter(f_last.post).out = <<>>
          /\ IterAndCleanupCollector(f_last.post).out = <<>>
          /\ ~HasFbkCollector(f_last.post)

\* a consuming iteration has found entries, and the collector is empty
C19_Witness ==
    /\ f_last.op = "drain"
    /\ Len(f_last.pre) = 2
    /\ f_collector = <<>>
    /\ f_drv = "drain"

\* C20: under any interleaving of add_fbk_from calls by the threads with
\* consuming iterations and cleanup() calls by the driver, the fragments
\* accepted for a ref are, in order, those already delivered, those the
\* running iteration has still to yield and those in the collector: none is
\* lost, none is delivered twice, and cleanup() leaves the collector as it is
C20_AcceptedFragmentsDeliveredOnce ==
    /\ \A ref \in Refs :
          f_accepted[ref] =
              FragsIn(f_delivered, ref)
              \o (IF f_drv = "drain" THEN FragsIn(f_pending, ref) ELSE <<>>)
              \o FragsIn(f_collector, ref)
    /\ f_last.op = "cleanup" => f_last.post = f_last.pre

\* two consuming iterations have delivered fragments of one ref, a fragment
\* of it was added after the second had taken the collector, and cleanup()
\* has just run with that fragment collected
C20_Witness ==
    /\ f_last.op = "cleanup"
    /\ \E ref \in Refs :
          /\ \E i, j \in 1..Len(f_delivered) :
                i # j /\ f_delivered[i].ref = ref /\ f_delivered[j].ref = ref
          /\ FragsIn(f_last.pre, ref) # <<>>

(***************************************************************************)
(* Claims about the operation id, the workers of an operation and the      *)
(* accept loop (Spec).                                                     *)
(***************************************************************************)
\* C22: between start() and stop(), _sending_id increases by exactly one on
\* each framework-initiated call and is changed by no other step: user-code
\* sends, the accept loop and the feedback workers leave it as it is
C22_SendingIdCountsFrameworkCalls ==
    [][(phase = "started" /\ phase' = "started")
          => /\ g_op' - g_op \in {0, 1}
             /\ sending_id' = sending_id + (g_op' - g_op)]_vars

\* two framework-initiated sends and a user-code send were made, a peer was
\* handled by the accept loop and a worker of the user-code send has ended
C22_Witness ==
    /\ phase = "started"
    /\ sending_id = 2
    /\ g_op = 2
    /\ g_calls = 3
    /\ ev_set # {}
    /\ \E w \in 1..MaxWorkers : workers[w].st = "done" /\ ~workers[w].from_fmk

\* C28: every framework-initiated send operation has one feedback worker at
\* most, whatever the mode of its destination and the number of peers that
\* connect to a server-mode interface
C28_OneWorkerPerOperation ==
    \A o \in 1..MaxCalls : g_spawned[o] <= 1

\* C29: the accept loop of a listened (address, port) does not end before
\* stop() is called, whatever the callback does with an accepted connection
C29_AcceptLoopLivesUntilStop ==
    ~stop_event => \A e \in 1..MaxStarts : acc[e].pc \notin {"dead", "exited"}

(***************************************************************************)
(* Claim about the transport tuples of the registry (SpecResolve).         *)
(***************************************************************************)
\* (family, STREAM), (family, DGRAM) or (family, RAW, protocol)
IsTransport(socket_type) ==
    \/ Len(socket_type) = 2 /\ socket_type[2] \in {"SOCK_STREAM", "SOCK_DGRAM"}
    \/ Len(socket_type) = 3 /\ socket_type[2] = "SOCK_RAW"

\* C26: a tuple that is neither (family, STREAM), (family, DGRAM) nor
\* (family, RAW, protocol) is rejected by register_new_interface whatever
\* its length, so that every registered interface has one of these forms
C26_OnlyTransportsAreRegistered ==
    \A i \in 1..Len(reg_log) : IsTransport(reg_log[i].socket_type)

(***************************************************************************)
(* Claim about the serialization lock of the synchronous sends (SpecSync). *)
(***************************************************************************)
\* C21: one thread at most is inside the with block of send_data_sync or
\* send_multiple_data_sync, _send_data_lock is free once the send has
\* returned or raised, and the thread that holds it is never one that
\* waits for ever, so that a later synchronous send gets the lock
C21_SerializationLockIsReleased ==
    /\ Cardinality({t \in SyncThreads : y_pc[t] \in {"send", "blocked"}}) <= 1
    /\ \A t \in SyncThreads : y_pc[t] \in {"idle", "lock"} => y_lock # t
    /\ \A t \in SyncThreads : y_lock = t => y_pc[t] # "blocked"


(***************************************************************************)
(* Claim C23: a send_data call of the framework with a null payload        *)
(* (collect_feedback_without_sending) has, when it is over, started one    *)
(* worker on the held handle when the interface holds its connection and   *)
(* the feedback timeout is not zero, and otherwise has used no handle and  *)
(* started no worker.  A null payload is never written: WriteOutcomes      *)
(* gives it the one outcome "ok", the return of line 1168 before the       *)
(* select of line 1170.                                                    *)
(***************************************************************************)
NullCallOver ==
    /\ drv.pc = "idle"
    /\ drv.call > 0
    /\ drv.data.is_none
    /\ drv.from_fmk

C23_NullPayloadCollectsOnce ==
    NullCallOver =>
        IF Hold /\ feedback_timeout # 0
        THEN /\ g_spawned[drv.op] = 1
             /\ drv.h # NoSock
             /\ drv.result = "ok"
        ELSE /\ g_spawned[drv.op] = 0
             /\ drv.h = NoSock


(***************************************************************************)
(* Claim C24: when send_multiple_data has returned, each payload of        *)
(* data_list has been written exactly once, or has not been written and    *)
(* is recorded as failed (SpecDispatch).                                   *)
(***************************************************************************)
WritesOf(i) == Cardinality({k \in 1..Len(d_written) : d_written[k].data = i})

C24_EveryPayloadDispatchedOnce ==
    (d_pc = "done" /\ d_result = "returned") =>
        \A i \in 1..Len(d_list) :
            \/ WritesOf(i) = 1
            \/ WritesOf(i) = 0 /\ i \in d_failed

(***************************************************************************)
(* Claim C25: for a pair whose dynamic interface has been removed and not  *)
(* created again, every handle created for the pair (by connect, by the    *)
(* listener or by accept) is closed and is in none of the three            *)
(* collections of the auxiliary registry (SpecDyn).                        *)
(***************************************************************************)
DynRegistered(h) ==
    \/ \E k \in 1..Len(dy_add_sockets) : dy_add_sockets[k] = h
    \/ \E p \in dy_add_ids : p[1] = h
    \/ h \in dy_add_lengths

C25_RemovedInterfaceIsDestroyed ==
    \A e \in dy_gone : \A h \in DynHandles :
        dy_made[h] = e => dy_sock[h] = "closed" /\ ~DynRegistered(h)

(***************************************************************************)
(* Claim C27: once the framework has started a send, _last_ack_date is     *)
(* None until the first readiness event of a worker of that operation,     *)
(* and is the date of that event from then on (SpecAck).                   *)
(***************************************************************************)
C27_AckDateIsFirstReadinessOfOperation ==
    ak_sid > 0 => ak_last = ak_first[ak_sid]

(***************************************************************************)
(* Claim C30: every call of the callback by the accept loop has the        *)
(* arguments of the most recent listen call made before its connection     *)
(* was accepted (the one stored then, or the one begun then), and never    *)
(* those of a call older than one that had returned when the callback      *)
(* was called (SpecListen).                                                *)
(***************************************************************************)
C30_HandledWithMostRecentArguments ==
    \A k \in 1..Len(ls_handled) :
        /\ ls_handled[k].args \in {ls_handled[k].stored, ls_handled[k].made}
        /\ ls_handled[k].args >= ls_handled[k].returned

(***************************************************************************)
(* Claim C31: the pair has at most one held handle in the held-client      *)
(* registry and in the last-peer registry: the inverse maps hold no        *)
(* handle but the one of the forward map, and a handle that was replaced   *)
(* there is closed (Spec).                                                 *)
(***************************************************************************)
C31_OneHeldHandlePerPair ==
    /\ hclient_sock2hp \subseteq {hclient_hp2sock}
    /\ last_client_sock2hp \subseteq {last_client_hp2sock}
    /\ \A h \in (hclient_sock2hp \ {hclient_hp2sock})
                  \cup (last_client_sock2hp \ {last_client_hp2sock}) :
           sock[h] = "closed"


(***************************************************************************)
(* Claim C32: a handle epoll reported an error event for is out of the     *)
(* worker's remaining set and, when the worker has left, is closed and     *)
(* has an entry with a negative error code under its reference id          *)
(* (SpecWorker).                                                           *)
(***************************************************************************)
C32_ErrorEventIsClosedAndRecorded ==
    \A s \in u_errev :
        /\ u_pc \in {"loop", "exit", "done"} => s \notin u_fbk
        /\ u_pc = "done" =>
              /\ ~u_open[s]
              /\ \E k \in 1..Len(u_entries) :
                    u_entries[k].ref = s /\ u_entries[k].err < 0

(***************************************************************************)
(* Claim C33: the worker never closes a handle that is, at the moment of   *)
(* the close, a held client connection, a held server peer or a            *)
(* registered auxiliary handle, and when it has left every handle it       *)
(* collected from that is in no registry is closed (SpecWorker).           *)
(***************************************************************************)
C33_WorkerClosesAllButRegistered ==
    /\ \A c \in u_wclosed : ~c.registered
    /\ u_pc = "done" =>
          \A s \in WorkerHandles :
              (u_stopped \/ ~InRegistry(s, WorkerRegs)) => ~u_open[s]

(***************************************************************************)
(* Claim C34: a worker that has ended has appended one feedback entry per  *)
(* handle it was given and, when the framework started it, has called      *)
(* _feedback_complete once; it never ends in another way (SpecWorker).     *)
(***************************************************************************)
C34_WorkerEndsWithEntriesAndCompletion ==
    /\ u_pc # "dead"
    /\ u_pc = "done" =>
          /\ \A s \in WorkerHandles :
                Cardinality({k \in 1..Len(u_entries) : u_entries[k].ref = s}) = 1
          /\ u_complete = (IF u_from_fmk THEN 1 ELSE 0)


(***************************************************************************)
(* Claim C35: every interface registered by register_new_interface keeps   *)
(* the server-mode and hold-connection values of its registration, also    *)
(* when another interface was registered later with the same (address,     *)
(* port) (SpecResolve).                                                    *)
(***************************************************************************)
C35_InterfaceKeepsItsSettings ==
    \A k \in 1..Len(reg_log) :
        (\A j \in (k + 1)..Len(reg_log) : reg_log[j].tag # reg_log[k].tag) =>
            /\ server_mode[if_hostport[reg_log[k].tag]] = reg_log[k].server_mode
            /\ hold_connection[if_hostport[reg_log[k].tag]] = reg_log[k].hold_connection


(***************************************************************************)
(* Claim C36: whenever the consumer of __iter__ reads the two lists it     *)
(* was handed for a reference id, the list of fragments and the list of    *)
(* time stamps have the same length (SpecShared).                          *)
(***************************************************************************)
C36_YieldedListsHaveEqualLength ==
    sh_seen.done => sh_seen.frags = sh_seen.ts

(***************************************************************************)
(* Claim C37: _server_thread_lock is never left acquired by a thread that  *)
(* has ended, also when stop() has reset the registries while the worker   *)
(* is in its loop and the worker then runs                                 *)
(* _check_and_handle_obsolete_socket (SpecWorker).                         *)
(***************************************************************************)
C37_ServerThreadLockIsReleased ==
    ~u_lock_lost


C39_RemovalLeavesStaticSettings ==
    [][(\E e \in Endpoints : dy_ifaces[e] # NoIface /\ dy_ifaces'[e] = NoIface)
          => dy_hold'[CtorEndpoint] = dy_hold[CtorEndpoint]]_vars


(***************************************************************************)
(* Claim C40: after any sequence of connect_to, listen_to, inbound         *)
(* connections or datagrams and remove_dynamic_interface, the list         *)
(* _additional_fbk_sockets holds no handle twice and its set is the key    *)
(* set of _additional_fbk_ids and of _additional_fbk_lengths (SpecDyn).    *)
(***************************************************************************)
C40_AuxiliaryRegistryIsConsistent ==
    /\ \A j, k \in 1..Len(dy_add_sockets) :
          dy_add_sockets[j] = dy_add_sockets[k] => j = k
    /\ {dy_add_sockets[k] : k \in 1..Len(dy_add_sockets)} = {p[1] : p \in dy_add_ids}
    /\ {dy_add_sockets[k] : k \in 1..Len(dy_add_sockets)} = dy_add_lengths

=============================================================================
